---------------------------- MODULE Spec2Model ----------------------------
(***************************************************************************)
(* Loan lifecycle, due-date classification and notification polling of the *)
(* library front end.                                                      *)
(*                                                                         *)
(*   UserCheckouts     (src/unnamed/part_007)      the "my loans" view     *)
(*   useNotifications  (src/lib/useNotifications.ts) the notification hook *)
(*   LibraryDashboard  (src/components/LibraryDashboard.tsx) the book grid *)
(*                                                                         *)
(* The event loop is single threaded: every action below is one task of    *)
(* the loop, i.e. the synchronous run of a handler from one suspension     *)
(* point (await) to the next, with all React state writes it performs.     *)
(***************************************************************************)
EXTENDS Integers, Sequences, FiniteSets, TLC

VARIABLES
  \* ---- the session of the auth client (supabase.auth.getSession) ----
  session,          \* TRUE iff getSession() resolves to a session
  \* ---- DueDateClassifier: one pass of the map callback ----
  book_due_date,    \* book.due_date of the book being processed
  currentDate,      \* the `new Date()` snapshot (ms)
  processed,        \* Null, or Some(the object the callback returned)
  \* ---- useNotifications ----
  notifications,    \* useState<NotificationData | null>(null)
  notif_loading,    \* the hook's `loading`
  notif_error,      \* the hook's `error`
  mounted,          \* the component using the hook is mounted
  interval,         \* the setInterval timer is armed
  fetches,          \* the invocations of fetchNotifications in flight
  srvSummary,       \* what GET /books/my-checkouts/notifications returns now
  notif_lastDone,   \* history: how the last finished fetch ended
  notif_started,    \* history: a fetch has started since then
  notif_prev,       \* history: a summary was shown when the last fetch finished
  \* ---- UserCheckouts (the "my loans" view) ----
  checkouts,        \* useState<CheckoutInfo[]>([]): the displayed list
  loading,          \* useState(true)
  error,            \* useState(''): the single current error
  successMessage,   \* useState(''): <<>> is '', else <<kind, id>>
  checkinLoading,   \* useState<Set<string>>: ids with a check-in pending
  extendLoading,    \* useState<Set<string>>: ids with a renewal pending
  currentPage,      \* useState(1)
  totalPages,       \* useState(1)
  timers,           \* pending setTimeout(() => setSuccessMessage(''), 5000)
  ops,              \* the handler invocations in flight, oldest first
  srvLoans,         \* server: the ids the user has on loan
  srvDue,           \* server: the due date of each book
  srvRenewed,       \* server: the ids whose loan has been extended
  now,              \* the wall clock (ms) while the view is open
  uc_mounted,       \* the UserCheckouts component is mounted
  \* ---- LibraryDashboard (the book grid) ----
  lib_books,        \* useState<Book[]>([]): the displayed grid
  lib_loading,      \* useState(true)
  lib_error,        \* useState('')
  lib_totalPages,   \* useState(1)
  lib_ops,          \* the handler invocations in flight, oldest first
  lib_srvOut,       \* server: the books whose status is 'checked_out'
  lib_mounted,      \* the LibraryDashboard component is mounted
  \* ---- LibraryDashboard (the AI recommendations of a search) ----
  aiSearchResults,        \* useState<AISearchResponse | null>(null)
  showAiRecommendations,  \* useState(false)
  lib_successMessage,     \* useState(''): <<>> is '', else <<"checkout", id>>
  lib_timers,             \* pending setTimeout(() => setSuccessMessage(''), 3000)
  \* ---- DocumentDashboard ----
  documents,          \* useState<Document[]>([]): the fetched page
  doc_loading,        \* useState(true)
  doc_error,          \* useState('')
  doc_totalPages,     \* useState(1)
  selectedFileType,   \* useState('all')
  searchTerm,         \* useState('')
  selectedDocuments,  \* useState<Set<string>>(new Set())
  deleting,           \* useState(false)
  doc_ops,            \* the handler invocations in flight, oldest first
  doc_srv             \* server: the ids of the user's documents

clsVars == <<book_due_date, currentDate, processed>>
notifVars == <<notifications, notif_loading, notif_error, mounted, interval,
               fetches, srvSummary, notif_lastDone, notif_started, notif_prev>>
loanVars == <<checkouts, loading, error, successMessage, checkinLoading,
              extendLoading, currentPage, totalPages, timers, ops,
              srvLoans, srvDue, srvRenewed, now, uc_mounted>>
aiVars == <<aiSearchResults, showAiRecommendations, lib_successMessage,
            lib_timers>>
libVars == <<lib_books, lib_loading, lib_error, lib_totalPages, lib_ops,
             lib_srvOut, lib_mounted, aiVars>>
docVars == <<documents, doc_loading, doc_error, doc_totalPages, selectedFileType,
             searchTerm, selectedDocuments, deleting, doc_ops, doc_srv>>
vars == <<session, clsVars, notifVars, loanVars, libVars, docVars>>
\* what the actions of one component leave alone
exceptCls == <<notifVars, loanVars, libVars, docVars>>
exceptNotif == <<clsVars, loanVars, libVars, docVars>>
exceptLoans == <<clsVars, notifVars, libVars, docVars, uc_mounted>>
exceptLib == <<clsVars, notifVars, loanVars, docVars, aiVars, lib_mounted>>
exceptSearch == <<clsVars, notifVars, loanVars, docVars, lib_mounted>>
exceptDocs == <<clsVars, notifVars, loanVars, libVars>>

(***************************************************************************)
(* Bounds of the model.                                                    *)
(***************************************************************************)
\* instants of the classifier's inputs: quarter days 0..MaxQuarters, each
\* exactly on the boundary and one millisecond after it
MaxQuarters == 12
\* invocations of fetchNotifications that may overlap
MaxFetches == 2
\* the server's overdue_count ranges over 0..MaxCount
MaxCount == 1
\* books of the catalogue: ids 1..MaxBooks
MaxBooks == 2
\* handler invocations and success timers of a view that may be pending at
\* once
MaxOps == 2
\* days that pass while the "my loans" view is open
MaxDays == 1
\* the documents of the user
MaxDocs == 2
\* the invocations in flight in the document dashboard
MaxDocOps == 1
\* the documents of a loaded list whose check boxes are studied
MaxCandidates == 3

(***************************************************************************)
(* Optional values: JavaScript null/undefined is <<>>, a value v is <<v>>. *)
(***************************************************************************)
Null == <<>>
Some(v) == <<v>>
Val(o) == o[1]

(***************************************************************************)
(* Arithmetic of the classifier.                                           *)
(***************************************************************************)
\* 1000 * 60 * 60 * 24, the divisor of part_007 line 86
MS_PER_DAY == 1000 * 60 * 60 * 24

\* Math.ceil(n / d) for d > 0 (\div rounds towards minus infinity)
MathCeil(n, d) == -((-n) \div d)

\* n = ceil(x / MS_PER_DAY), stated without the model's rounding operator
IsCeilDays(n, x) == n * MS_PER_DAY >= x /\ (n - 1) * MS_PER_DAY < x

\* Math.abs
MathAbs(n) == IF n < 0 THEN -n ELSE n

\* currentDate > dueDate: Date objects compare by their time value
GreaterMutantGe(a, b) == a >= b
DateGreater(a, b) == a > b

\* Math.ceil((dueDate.getTime() - currentDate.getTime()) / (1000*60*60*24))
DaysDiffMutantFloor(dueTime, currentTime) == (dueTime - currentTime) \div MS_PER_DAY
DaysDiff(dueTime, currentTime) == MathCeil(dueTime - currentTime, MS_PER_DAY)

\* `isOverdue ? Math.abs(daysDiff) : 0`
DaysOverdueMutantSigned(isOverdue, daysDiff) == IF isOverdue THEN daysDiff ELSE 0
DaysOverdue(isOverdue, daysDiff) == IF isOverdue THEN MathAbs(daysDiff) ELSE 0

\* The body of data.books.map(...): the derived fields of one book.
\* due_date is the book's optional due date (already a time value in ms),
\* current the single `new Date()` taken before the map.
processBook(due_date, current) ==
  LET dueDate   == IF due_date # Null THEN due_date ELSE Null
      isOverdue == IF dueDate # Null THEN DateGreater(current, Val(dueDate)) ELSE FALSE
      daysDiff  == IF dueDate # Null THEN DaysDiff(Val(dueDate), current) ELSE 0
  IN  [ due_date       |-> due_date,
        is_overdue     |-> isOverdue,
        days_overdue   |-> DaysOverdue(isOverdue, daysDiff),
        days_until_due |-> IF ~isOverdue THEN daysDiff ELSE 0 ]

\* getStatusBadge / dueSoonCount: the presentation threshold
isDueSoonMutantIgnoresOverdue(c) == c.days_until_due <= 3
isDueSoon(c) == ~c.is_overdue /\ c.days_until_due <= 3

\* checkouts.filter(c => c.is_overdue).length
overdueCount(list) ==
  Cardinality({ i \in 1..Len(list) : list[i].is_overdue })
\* checkouts.filter(c => !c.is_overdue && c.days_until_due <= 3).length
dueSoonCount(list) ==
  Cardinality({ i \in 1..Len(list) : isDueSoon(list[i]) })


\* the classifier at rest (while another component is studied)
ClsRest ==
  /\ book_due_date = Null
  /\ currentDate = 0
  /\ processed = Null

(***************************************************************************)
(* useNotifications (src/lib/useNotifications.ts).                         *)
(***************************************************************************)
\* a NotificationData value: the counts stand for the whole response body
ServerSummaries ==
  { [ total_checkouts   |-> o,
      overdue_count     |-> o,
      due_soon_count    |-> 0,
      has_notifications |-> (o > 0) ] : o \in 0..MaxCount }

FetchFailedMsg == "Failed to fetch notifications"
\* err.message of an error thrown by fetch() or response.json() itself
ThrownMsg == "network error"

\* `fetches` lists the invocations in flight, oldest first
FetchSlots == 1..Len(fetches)
NoResponse == [kind |-> "none", body |-> Null]
RemoveAt(seq, i) == SubSeq(seq, 1, i - 1) \o SubSeq(seq, i + 1, Len(seq))

\* the state of the hook right after its three useState calls, not mounted
NotifRest ==
  /\ notifications = Null
  /\ notif_loading = FALSE
  /\ notif_error = ""
  /\ mounted = FALSE
  /\ interval = FALSE
  /\ fetches = <<>>
  /\ srvSummary = [total_checkouts |-> 0, overdue_count |-> 0,
                   due_soon_count |-> 0, has_notifications |-> FALSE]
  /\ notif_lastDone = "none"
  /\ notif_started = FALSE
  /\ notif_prev = FALSE

\* fetchNotifications up to `await supabase.auth.getSession()`:
\* setLoading(true); setError('')
StartFetch(trigger) ==
  /\ Len(fetches) < MaxFetches
  /\ fetches' = Append(fetches, [pc |-> "session", live |-> TRUE,
                                 trigger |-> trigger, resp |-> NoResponse])
  /\ notif_loading' = TRUE
  /\ notif_error' = ""
  /\ notif_started' = TRUE

\* the effect of useEffect(..., []): one fetch at once, then the interval
NotifMount ==
  /\ ~mounted
  /\ mounted' = TRUE
  /\ interval' = TRUE
  /\ notifications' = Null
  /\ notif_lastDone' = "none"
  /\ notif_prev' = FALSE
  /\ StartFetch("mount")
  /\ UNCHANGED <<session, exceptNotif, srvSummary>>

\* the effect's cleanup: clearInterval(interval). The state of the unmounted
\* component is gone: what a fetch still in flight writes later is dropped.
NotifUnmountMutantKeepsTimer ==
  /\ mounted
  /\ mounted' = FALSE
  /\ fetches' = [p \in FetchSlots |-> [fetches[p] EXCEPT !.live = FALSE]]
  /\ UNCHANGED <<session, exceptNotif, notifications, notif_loading, notif_error,
                 interval, srvSummary, notif_lastDone, notif_started, notif_prev>>
NotifUnmount ==
  /\ mounted
  /\ mounted' = FALSE
  /\ interval' = FALSE
  /\ fetches' = [p \in FetchSlots |-> [fetches[p] EXCEPT !.live = FALSE]]
  /\ UNCHANGED <<session, exceptNotif, notifications, notif_loading, notif_error,
                 srvSummary, notif_lastDone, notif_started, notif_prev>>

\* the period of the interval: 5 * 60 * 1000
POLL_INTERVAL_MS == 5 * 60 * 1000

\* setInterval(fetchNotifications, 5 * 60 * 1000) fires
NotifTickMutantSkipsWhileBusy ==
  /\ interval
  /\ fetches = <<>>
  /\ StartFetch("interval")
  /\ UNCHANGED <<session, exceptNotif, notifications, mounted, interval, srvSummary,
                 notif_lastDone, notif_prev>>
NotifTick ==
  /\ interval
  /\ StartFetch("interval")
  /\ UNCHANGED <<session, exceptNotif, notifications, mounted, interval, srvSummary,
                 notif_lastDone, notif_prev>>

\* a consumer calls refresh()
NotifRefreshMutantDeduplicates ==
  /\ mounted
  /\ fetches = <<>>
  /\ StartFetch("refresh")
  /\ UNCHANGED <<session, exceptNotif, notifications, mounted, interval, srvSummary,
                 notif_lastDone, notif_prev>>
NotifRefresh ==
  /\ mounted
  /\ StartFetch("refresh")
  /\ UNCHANGED <<session, exceptNotif, notifications, mounted, interval, srvSummary,
                 notif_lastDone, notif_prev>>

\* what one finished fetch writes: `summary` and `err` are Null when the
\* path does not call setNotifications / setError; finally setLoading(false)
FinishFetchMutantWritesAfterUnmount(p, how, summary, err) ==
  /\ fetches' = RemoveAt(fetches, p)
  /\ notifications' = IF summary = Null THEN notifications ELSE Val(summary)
  /\ notif_error' = IF err = Null THEN notif_error ELSE Val(err)
  /\ notif_loading' = FALSE
  /\ notif_lastDone' = how
  /\ notif_started' = FALSE
  /\ notif_prev' = (notifications # Null)
FinishFetch(p, how, summary, err) ==
  /\ fetches' = RemoveAt(fetches, p)
  /\ IF fetches[p].live
       THEN /\ notifications' = IF summary = Null THEN notifications ELSE Val(summary)
            /\ notif_error' = IF err = Null THEN notif_error ELSE Val(err)
            /\ notif_loading' = FALSE
            /\ notif_lastDone' = how
            /\ notif_started' = FALSE
            /\ notif_prev' = (notifications # Null)
       ELSE UNCHANGED <<notifications, notif_error, notif_loading,
                        notif_lastDone, notif_started, notif_prev>>

\* `if (!session) { setNotifications(null); return }`
NoSessionMutantThrows(p) ==
  FinishFetch(p, "no_session", Some(Null), Some("No authenticated session found"))
NoSessionBranch(p) ==
  FinishFetch(p, "no_session", Some(Null), Null)

\* getSession() resolves: without a session the fetch ends here, with one
\* the request is sent
NotifGetSession(p) ==
  /\ fetches[p].pc = "session"
  /\ IF session
       THEN /\ fetches' = [fetches EXCEPT ![p].pc = "net"]
            /\ UNCHANGED <<notifications, notif_loading, notif_error,
                           notif_lastDone, notif_started, notif_prev>>
       ELSE NoSessionBranch(p)
  /\ UNCHANGED <<session, exceptNotif, mounted, interval, srvSummary>>

\* the server (or the network) answers the request
NotifRespondMutantEarlyWrite(p) ==
  /\ fetches[p].pc = "net"
  /\ fetches' = [fetches EXCEPT ![p].pc = "resp",
                                ![p].resp = [kind |-> "ok", body |-> Some(srvSummary)]]
  /\ notifications' = Some(srvSummary)
  /\ UNCHANGED <<session, exceptNotif, notif_loading, notif_error,
                 mounted, interval, srvSummary, notif_lastDone, notif_started,
                 notif_prev>>
NotifRespond(p) ==
  /\ fetches[p].pc = "net"
  /\ \E r \in { [kind |-> "ok", body |-> Some(srvSummary)],
                [kind |-> "http_error", body |-> Null],
                [kind |-> "threw", body |-> Null] } :
        fetches' = [fetches EXCEPT ![p].pc = "resp", ![p].resp = r]
  /\ UNCHANGED <<session, exceptNotif, notifications, notif_loading, notif_error,
                 mounted, interval, srvSummary, notif_lastDone, notif_started,
                 notif_prev>>

\* catch (err) { setError(...); setNotifications(null) }
CatchMutantKeepsSummary(p, how, msg) ==
  FinishFetch(p, how, Null, Some(msg))
CatchBranch(p, how, msg) ==
  FinishFetch(p, how, Some(Null), Some(msg))

\* the response reaches the hook: lines 49-61
NotifDeliver(p) ==
  /\ fetches[p].pc = "resp"
  /\ CASE fetches[p].resp.kind = "ok" ->
            FinishFetch(p, "ok", Some(fetches[p].resp.body), Null)
       [] fetches[p].resp.kind = "http_error" ->
            CatchBranch(p, "http_error", FetchFailedMsg)
       [] OTHER ->
            CatchBranch(p, "threw", ThrownMsg)
  /\ UNCHANGED <<session, exceptNotif, mounted, interval, srvSummary>>

\* the user's loans change on the server
NotifServerChange ==
  /\ srvSummary' \in ServerSummaries \ {srvSummary}
  /\ UNCHANGED <<session, exceptNotif, notifications, notif_loading, notif_error,
                 mounted, interval, fetches, notif_lastDone, notif_started,
                 notif_prev>>

\* the auth client gains or loses its session
SignIn ==
  /\ ~session
  /\ session' = TRUE
  /\ UNCHANGED <<clsVars, exceptCls>>

SignOut ==
  /\ session
  /\ session' = FALSE
  /\ UNCHANGED <<clsVars, exceptCls>>


\* C9: a fetch that got a non-success status leaves the error "Failed to
\* fetch notifications" (until the next fetch starts) and the summary null:
\* the counts of an earlier successful fetch are no longer visible.
C9_FailedFetchResetsSummary ==
  notif_lastDone = "http_error" =>
     /\ notifications = Null
     /\ ~notif_started => notif_error = FetchFailedMsg

C9_Witness ==
  /\ notif_lastDone = "http_error"
  /\ notif_prev
  /\ notifications = Null
  /\ notif_error = FetchFailedMsg

\* the step in which invocation p learns the result of getSession()
SessionStepOf(p) ==
  /\ fetches[p].pc = "session"
  /\ fetches[p].live
  /\ \/ fetches' = RemoveAt(fetches, p)
     \/ fetches' = [fetches EXCEPT ![p].pc = "net"]

\* C10: a fetch that finds no active session sets the summary to null, ends
\* without sending a request and writes no error: every fetch clears the
\* error when it starts, and the no-session path leaves it as it is.
C10_NoSessionIsNotAnError ==
  /\ [](notif_lastDone = "no_session" => notifications = Null)
  /\ [][ /\ \A p \in FetchSlots :
              (SessionStepOf(p) /\ ~session) =>
                 /\ fetches' = RemoveAt(fetches, p)
                 /\ notifications' = Null
                 /\ notif_error' = notif_error
         /\ Len(fetches') > Len(fetches) => notif_error' = "" ]_vars

C10_Witness ==
  /\ notif_lastDone = "no_session"
  /\ notif_prev
  /\ notifications = Null
  /\ notif_error = ""
  /\ ~session

\* C11: the visible summary is null or one whole response body. It changes
\* only in the step that ends a fetch (or when a fresh instance mounts with
\* its initial null): until then the value stored before stays visible, and
\* a successful fetch swaps in its parsed body in that one step.
C11_SummaryReplacedAtomically ==
  /\ [](notifications = Null \/ Val(notifications) \in ServerSummaries)
  /\ [][notifications' # notifications =>
          \/ ~mounted /\ mounted' /\ notifications' = Null
          \/ \E p \in FetchSlots :
                /\ fetches[p].live
                /\ fetches[p].pc \in {"session", "resp"}
                /\ fetches' = RemoveAt(fetches, p)
                /\ notifications' =
                     IF fetches[p].pc = "resp" /\ fetches[p].resp.kind = "ok"
                       THEN fetches[p].resp.body ELSE Null]_vars

\* a new body has arrived and is not yet applied: the old summary is shown
C11_Witness ==
  \E p \in FetchSlots :
     /\ fetches[p].live
     /\ fetches[p].pc = "resp"
     /\ fetches[p].resp.kind = "ok"
     /\ notifications # Null
     /\ fetches[p].resp.body # notifications

\* C12: refresh() and the interval's fetches are not de-duplicated or
\* ordered: refresh() starts a fetch while others are in flight and leaves
\* them as they are, every answered fetch can be the next to be applied,
\* in any order, and a successful one always writes its body, so the
\* summary is the body applied last, also that of the older request.
C12_OverlappingFetchesLastWriterWins ==
  /\ [](mounted /\ Len(fetches) < MaxFetches => ENABLED NotifRefresh)
  /\ [](\A p \in FetchSlots : fetches[p].pc = "resp" => ENABLED NotifDeliver(p))
  /\ [][ /\ Len(fetches') > Len(fetches) =>
              SubSeq(fetches', 1, Len(fetches)) = fetches
         /\ \A p \in FetchSlots :
              ( /\ fetches[p].live
                /\ fetches[p].pc = "resp"
                /\ fetches[p].resp.kind = "ok"
                /\ fetches' = RemoveAt(fetches, p) ) =>
                   notifications' = fetches[p].resp.body ]_vars

\* an interval fetch and a later refresh() are both answered, the older one
\* with a body the server has replaced since
C12_Witness ==
  /\ Len(fetches) = 2
  /\ fetches[1].trigger = "interval" /\ fetches[2].trigger = "refresh"
  /\ fetches[1].live /\ fetches[2].live
  /\ fetches[1].pc = "resp" /\ fetches[2].pc = "resp"
  /\ fetches[1].resp.kind = "ok" /\ fetches[2].resp.kind = "ok"
  /\ fetches[1].resp.body # fetches[2].resp.body
  /\ fetches[2].resp.body = Some(srvSummary)

\* C13: once the component is unmounted its interval is cleared, and no
\* fetch is started for as long as it stays unmounted.
C13_NoFetchAfterUnmount ==
  /\ [](~mounted => ~interval)
  /\ [][~mounted' => /\ ~interval'
                     /\ Len(fetches') <= Len(fetches)]_vars

\* unmounted while a fetch was in flight
C13_Witness ==
  /\ ~mounted
  /\ ~interval
  /\ fetches # <<>>
  /\ ~fetches[1].live

\* C15: mounting starts one fetch in the same task and arms the interval
\* (5 * 60 * 1000 ms = 300000 ms); the interval is armed for as long as the
\* component is mounted, whatever the fetches do, and each tick starts one
\* more fetch next to those still in flight.
C15_FetchOnMountThenEveryTick ==
  /\ POLL_INTERVAL_MS = 300000
  /\ [](mounted <=> interval)
  /\ [](interval /\ Len(fetches) < MaxFetches => ENABLED NotifTick)
  /\ [][ /\ (~mounted /\ mounted') =>
              /\ Len(fetches') = Len(fetches) + 1
              /\ fetches'[Len(fetches')].pc = "session"
              /\ fetches'[Len(fetches')].trigger = "mount"
         /\ NotifTick =>
              /\ interval'
              /\ Len(fetches') = Len(fetches) + 1
              /\ SubSeq(fetches', 1, Len(fetches)) = fetches
              /\ fetches'[Len(fetches')].pc = "session" ]_vars

\* a tick has started a fetch while the fetch of the mount is unanswered
C15_Witness ==
  /\ Len(fetches) = 2
  /\ fetches[1].trigger = "mount" /\ fetches[1].pc = "net" /\ fetches[1].live
  /\ fetches[2].trigger = "interval" /\ fetches[2].live

(***************************************************************************)
(* UserCheckouts (src/unnamed/part_007): the "my loans" view.              *)
(*                                                                         *)
(* An invocation of a handler is a record of `ops`:                        *)
(*   kind      "fetch" (fetchCheckouts from the effect), "checkin",        *)
(*             "extend"                                                    *)
(*   id        the bookId argument (0 for a fetch)                         *)
(*   page      currentPage as captured by the closure                      *)
(*   pc        "session"   await getSession() of the handler               *)
(*             "net"       await fetch(POST ...)                           *)
(*             "r_session" await getSession() inside fetchCheckouts        *)
(*             "r_net"     await fetch(GET /books/my-checkouts)            *)
(*   posted    "pending", "ok" or "failed": the fate of the POST           *)
(*   refreshes how often the invocation has called fetchCheckouts          *)
(***************************************************************************)
Books == 1..MaxBooks
HalfDay == MS_PER_DAY \div 2
limit == 10
ExtendDays == 7

NoSessionMsg == "No authenticated session found"
\* errorData.detail of a non-success response that carries one
ServerDetail == "detail from the server"
CheckinFailedMsg == "Failed to check in book"
RenewFailedMsg == "Failed to renew loan"
FetchCheckoutsFailedMsg == "Failed to fetch checkouts"

Min(a, b) == IF a <= b THEN a ELSE b

\* the loans when the view is opened: book 2 is due in half a day, the
\* others are overdue by half a day or more
InitialDue(b) == IF b = 2 THEN HalfDay ELSE -b * HalfDay

RECURSIVE SetToSeq(_)
SetToSeq(S) ==
  IF S = {} THEN <<>>
  ELSE LET m == CHOOSE x \in S : \A y \in S : x <= y
       IN  <<m>> \o SetToSeq(S \ {m})

\* the server's answer to GET /books/my-checkouts?page=..&limit=..
MyCheckoutsResponse(page) ==
  LET all == SetToSeq(srvLoans)
      ids == SubSeq(all, (page - 1) * limit + 1, Min(page * limit, Len(all)))
  IN  [ books |-> [i \in 1..Len(ids) |->
                     [id |-> ids[i], due_date |-> Some(srvDue[ids[i]])]],
        total |-> Cardinality(srvLoans) ]

\* const processedCheckouts = data.books.map(...), one currentDate for all
processedCheckoutsMutantDatePerBook(data, current) ==
  [i \in 1..Len(data.books) |->
     [id |-> data.books[i].id]
       @@ processBook(data.books[i].due_date, current + (i - 1) * MS_PER_DAY)]
processedCheckouts(data, current) ==
  [i \in 1..Len(data.books) |->
     [id |-> data.books[i].id] @@ processBook(data.books[i].due_date, current)]

FetchOp == [kind |-> "fetch", id |-> 0, page |-> currentPage, pc |-> "r_session",
            posted |-> "n/a", refreshes |-> 1]
NewOp(kind, id) == [kind |-> kind, id |-> id, page |-> currentPage, pc |-> "session",
                    posted |-> "pending", refreshes |-> 0]
OpSlots == 1..Len(ops)

\* the view with nothing in flight and no loans (before it is opened)
LoanRest ==
  /\ checkouts = <<>>
  /\ loading = TRUE
  /\ error = ""
  /\ successMessage = <<>>
  /\ checkinLoading = {}
  /\ extendLoading = {}
  /\ currentPage = 1
  /\ totalPages = 1
  /\ timers = 0
  /\ ops = <<>>
  /\ srvLoans = {}
  /\ srvDue = [b \in Books |-> InitialDue(b)]
  /\ srvRenewed = {}
  /\ now = 0
  /\ uc_mounted = FALSE

\* a state setter of the component (setCheckouts, setError, ...): React
\* drops the update when the component is no longer mounted
SetState(cur, new) == IF uc_mounted THEN new ELSE cur

\* the rows of the list and their buttons are rendered only when
\* !loading; `disabled={checkinLoading.has(checkout.id)}`
Displayed(id) == uc_mounted /\ \E i \in 1..Len(checkouts) : checkouts[i].id = id
Item(id) == checkouts[CHOOSE i \in 1..Len(checkouts) : checkouts[i].id = id]

CheckinButtonMutantNeverDisabled(id) ==
  ~loading /\ Displayed(id)
CheckinButtonEnabled(id) ==
  ~loading /\ Displayed(id) /\ id \notin checkinLoading

ExtendButtonEnabled(id) ==
  ~loading /\ Displayed(id) /\ ~Item(id).is_overdue /\ id \notin extendLoading

\* bound of the model: the user starts no operation while MaxOps handlers
\* and success timers are pending
MayStartOp ==
  Len(ops) + timers < MaxOps

\* onClick={() => handleCheckin(checkout.id, checkout.title)} up to the
\* first await: setCheckinLoading(prev => new Set(prev).add(bookId))
ClickCheckin(id) ==
  /\ CheckinButtonEnabled(id)
  /\ MayStartOp
  /\ checkinLoading' = checkinLoading \cup {id}
  /\ ops' = Append(ops, NewOp("checkin", id))
  /\ UNCHANGED <<session, exceptLoans, checkouts, loading, error, successMessage,
                 extendLoading, currentPage, totalPages, timers, srvLoans,
                 srvDue, srvRenewed, now>>

\* onClick={() => handleExtendCheckout(checkout.id, checkout.title, 7)}
ClickExtend(id) ==
  /\ ExtendButtonEnabled(id)
  /\ MayStartOp
  /\ extendLoading' = extendLoading \cup {id}
  /\ ops' = Append(ops, NewOp("extend", id))
  /\ UNCHANGED <<session, exceptLoans, checkouts, loading, error, successMessage,
                 checkinLoading, currentPage, totalPages, timers, srvLoans,
                 srvDue, srvRenewed, now>>

\* the finally block of handleCheckin / handleExtendCheckout
FinallyBlockMutantClearsBothSets(o) ==
  /\ checkinLoading' = SetState(checkinLoading, checkinLoading \ {o.id})
  /\ extendLoading' = SetState(extendLoading, extendLoading \ {o.id})
FinallyBlock(o) ==
  /\ checkinLoading' = IF o.kind = "checkin"
                         THEN SetState(checkinLoading, checkinLoading \ {o.id})
                         ELSE checkinLoading
  /\ extendLoading' = IF o.kind = "extend"
                        THEN SetState(extendLoading, extendLoading \ {o.id})
                        ELSE extendLoading

\* the finally block as reached from the catch block
CleanupMutantSkipped(o) ==
  UNCHANGED <<checkinLoading, extendLoading>>
CleanupOnFailure(o) ==
  FinallyBlock(o)

\* the invocation returns
Finish(p) ==
  ops' = RemoveAt(ops, p)

\* where the handler goes once the POST has succeeded: on to
\* `await fetchCheckouts()`
OnPostOkMutantNoRefresh(o) ==
  [o EXCEPT !.posted = "ok", !.pc = "finally"]
OnPostOk(o) ==
  [o EXCEPT !.posted = "ok", !.pc = "r_session", !.refreshes = @ + 1]

\* where it goes when an error was thrown: catch, then finally
OnPostFailedMutantRefreshes(o) ==
  [o EXCEPT !.posted = "failed", !.pc = "r_session", !.refreshes = @ + 1]
OnPostFailed(o) ==
  [o EXCEPT !.posted = "failed", !.pc = "finally"]

\* the rest of the task that handled the POST's outcome: either the
\* synchronous start of fetchCheckouts (setLoading(true); setError('')) or
\* the catch block (setError(msg)) and the finally block
ProceedMutantKeepsFirstError(p, o, msg) ==
  IF o.pc = "finally"
    THEN /\ error' = IF msg = Null \/ error # "" THEN error ELSE Val(msg)
         /\ FinallyBlock(o)
         /\ Finish(p)
         /\ UNCHANGED loading
    ELSE /\ ops' = [ops EXCEPT ![p] = o]
         /\ loading' = TRUE
         /\ error' = ""
         /\ UNCHANGED <<checkinLoading, extendLoading>>
ProceedMutantClearsEarly(p, o, msg) ==
  IF o.pc = "finally"
    THEN /\ error' = IF msg = Null THEN error ELSE SetState(error, Val(msg))
         /\ FinallyBlock(o)
         /\ Finish(p)
         /\ UNCHANGED loading
    ELSE /\ ops' = [ops EXCEPT ![p] = o]
         /\ loading' = SetState(loading, TRUE)
         /\ error' = SetState(error, "")
         /\ FinallyBlock(o)
Proceed(p, o, msg) ==
  IF o.pc = "finally"
    THEN /\ error' = IF msg = Null THEN error ELSE SetState(error, Val(msg))
         /\ IF o.posted = "failed" THEN CleanupOnFailure(o) ELSE FinallyBlock(o)
         /\ Finish(p)
         /\ UNCHANGED loading
    ELSE /\ ops' = [ops EXCEPT ![p] = o]
         /\ loading' = SetState(loading, TRUE)
         /\ error' = SetState(error, "")
         /\ UNCHANGED <<checkinLoading, extendLoading>>

\* the handler's getSession() resolves
OpGetSession(p) ==
  /\ ops[p].pc = "session"
  /\ IF session
       THEN /\ ops' = [ops EXCEPT ![p].pc = "net"]
            /\ UNCHANGED <<loading, error, checkinLoading, extendLoading>>
       ELSE Proceed(p, OnPostFailed(ops[p]), Some(NoSessionMsg))
  /\ UNCHANGED <<session, exceptLoans, checkouts, successMessage, currentPage,
                 totalPages, timers, srvLoans, srvDue, srvRenewed, now>>

\* POST /books/{id}/checkin or /extend-checkout is answered with success:
\* the server has changed the loan; setSuccessMessage, setTimeout, then
\* fetchCheckouts() is called
OpPostSucceeds(p) ==
  /\ ops[p].pc = "net"
  /\ ops[p].id \in srvLoans
  /\ IF ops[p].kind = "checkin"
       THEN /\ srvLoans' = srvLoans \ {ops[p].id}
            /\ UNCHANGED <<srvDue, srvRenewed>>
       ELSE /\ ops[p].id \notin srvRenewed
            /\ srvDue' = [srvDue EXCEPT ![ops[p].id] = @ + ExtendDays * MS_PER_DAY]
            /\ srvRenewed' = srvRenewed \cup {ops[p].id}
            /\ UNCHANGED srvLoans
  /\ successMessage' = SetState(successMessage, <<ops[p].kind, ops[p].id>>)
  /\ timers' = timers + 1
  /\ Proceed(p, OnPostOk(ops[p]), Null)
  /\ UNCHANGED <<session, exceptLoans, checkouts, currentPage, totalPages, now>>

\* the POST is answered with a non-success status (with or without a
\* detail), or fetch() / response.json() throws
OpPostFails(p) ==
  /\ ops[p].pc = "net"
  /\ \E msg \in { ServerDetail, ThrownMsg,
                  IF ops[p].kind = "checkin" THEN CheckinFailedMsg ELSE RenewFailedMsg } :
        Proceed(p, OnPostFailed(ops[p]), Some(msg))
  /\ UNCHANGED <<session, exceptLoans, checkouts, successMessage, currentPage,
                 totalPages, timers, srvLoans, srvDue, srvRenewed, now>>

\* fetchCheckouts has ended (its finally: setLoading(false)); a handler that
\* awaited it runs its own finally block and returns
EndOfFetch(p) ==
  /\ loading' = SetState(loading, FALSE)
  /\ FinallyBlock(ops[p])
  /\ Finish(p)

\* getSession() inside fetchCheckouts resolves
FetchGetSessionMutantSendsAnyway(p) ==
  /\ ops[p].pc = "r_session"
  /\ ops' = [ops EXCEPT ![p].pc = "r_net"]
  /\ UNCHANGED <<session, exceptLoans, checkouts, loading, error, successMessage,
                 checkinLoading, extendLoading, currentPage, totalPages, timers,
                 srvLoans, srvDue, srvRenewed, now>>
FetchGetSession(p) ==
  /\ ops[p].pc = "r_session"
  /\ IF session
       THEN /\ ops' = [ops EXCEPT ![p].pc = "r_net"]
            /\ UNCHANGED <<loading, error, checkinLoading, extendLoading>>
       ELSE /\ error' = SetState(error, NoSessionMsg)
            /\ EndOfFetch(p)
  /\ UNCHANGED <<session, exceptLoans, checkouts, successMessage, currentPage,
                 totalPages, timers, srvLoans, srvDue, srvRenewed, now>>

\* GET /books/my-checkouts is answered with success: lines 79-97
FetchSucceeds(p) ==
  /\ ops[p].pc = "r_net"
  /\ LET data == MyCheckoutsResponse(ops[p].page)
     IN  /\ checkouts' = SetState(checkouts, processedCheckouts(data, now))
         /\ totalPages' = SetState(totalPages, MathCeil(data.total, limit))
  /\ EndOfFetch(p)
  /\ UNCHANGED <<session, exceptLoans, error, successMessage, currentPage,
                 timers, srvLoans, srvDue, srvRenewed, now>>

\* the ways GET /books/my-checkouts fails: a non-success status whose JSON
\* body has no `detail`, an empty one or a text, or fetch() / json() throws
FailedResponses ==
  { [kind |-> "http", detail |-> Null],
    [kind |-> "http", detail |-> Some("")],
    [kind |-> "http", detail |-> Some(ServerDetail)],
    [kind |-> "threw", detail |-> Null] }

\* `errorData.detail || generic`: an absent or empty detail is falsy
ErrorMessageMutantIgnoresDetail(detail, generic) == generic
ErrorMessageOf(detail, generic) ==
  IF detail = Null \/ Val(detail) = "" THEN generic ELSE Val(detail)

\* GET /books/my-checkouts fails with response r: lines 74-77 and 99-103
FetchFailsWithMutantClearsList(p, r) ==
  /\ ops[p].pc = "r_net"
  /\ error' = SetState(error,
                 IF r.kind = "http"
                   THEN ErrorMessageOf(r.detail, FetchCheckoutsFailedMsg)
                   ELSE ThrownMsg)
  /\ checkouts' = SetState(checkouts, <<>>)
  /\ EndOfFetch(p)
  /\ UNCHANGED <<session, exceptLoans, successMessage, currentPage,
                 totalPages, timers, srvLoans, srvDue, srvRenewed, now>>
FetchFailsWith(p, r) ==
  /\ ops[p].pc = "r_net"
  /\ error' = SetState(error,
                 IF r.kind = "http"
                   THEN ErrorMessageOf(r.detail, FetchCheckoutsFailedMsg)
                   ELSE ThrownMsg)
  /\ EndOfFetch(p)
  /\ UNCHANGED <<session, exceptLoans, checkouts, successMessage, currentPage,
                 totalPages, timers, srvLoans, srvDue, srvRenewed, now>>

FetchFails(p) ==
  \E r \in FailedResponses : FetchFailsWith(p, r)

\* setTimeout(() => setSuccessMessage(''), 5000) fires
TimerFires ==
  /\ timers > 0
  /\ timers' = timers - 1
  /\ successMessage' = SetState(successMessage, <<>>)
  /\ UNCHANGED <<session, exceptLoans, checkouts, loading, error, checkinLoading,
                 extendLoading, currentPage, totalPages, ops, srvLoans, srvDue,
                 srvRenewed, now>>

(***************************************************************************)
(* LibraryDashboard (src/components/LibraryDashboard.tsx): the book grid.  *)
(* No filter and no search term is set, so fetchBooks asks for page 1 of   *)
(* the whole catalogue and leaves the AI recommendations cleared.          *)
(*                                                                         *)
(* An invocation in `lib_ops` is a record with                             *)
(*   kind  "fetch" (fetchBooks from the effect), "checkout", "checkin"     *)
(*   id    the bookId argument (0 for a fetch)                             *)
(*   pc    "session", "net", "r_session", "r_net" as in UserCheckouts      *)
(***************************************************************************)
lib_limit == 12
CheckoutFailedMsg == "Failed to checkout book"
LibCheckinFailedMsg == "Failed to checkin book"
FetchBooksFailedMsg == "Failed to fetch books"

LibSlots == 1..Len(lib_ops)

\* the server's answer to GET /books?page=1&limit=12
BooksResponse ==
  [ books |-> [i \in 1..Min(MaxBooks, lib_limit) |->
                 [id |-> i,
                  status |-> IF i \in lib_srvOut THEN "checked_out" ELSE "available"]],
    total |-> MaxBooks ]

\* the 'all' entry of the file-type filter, as a sequence of characters
AllTypes == <<"a", "l", "l">>

\* the document dashboard before it is opened
DocRest ==
  /\ documents = <<>>
  /\ doc_loading = TRUE
  /\ doc_error = ""
  /\ doc_totalPages = 1
  /\ selectedFileType = AllTypes
  /\ searchTerm = <<>>
  /\ selectedDocuments = {}
  /\ deleting = FALSE
  /\ doc_ops = <<>>
  /\ doc_srv = {}

\* no search has been made: no recommendations, no success message
AiRest ==
  /\ aiSearchResults = Null
  /\ showAiRecommendations = FALSE
  /\ lib_successMessage = <<>>
  /\ lib_timers = 0

\* the grid before it is opened
LibRest ==
  /\ AiRest
  /\ lib_mounted = FALSE
  /\ lib_books = <<>>
  /\ lib_loading = TRUE
  /\ lib_error = ""
  /\ lib_totalPages = 1
  /\ lib_ops = <<>>
  /\ lib_srvOut = {}

\* the grid is rendered when !loading; a card shows "Check Out" when
\* book.status === 'available' and "Check In" when it is 'checked_out';
\* neither button has a `disabled` attribute
LibShown(id, status) ==
  /\ ~lib_loading
  /\ \E i \in 1..Len(lib_books) : lib_books[i].id = id /\ lib_books[i].status = status

\* bound of the model: no click while MaxOps handlers are in flight
LibMayStartOp ==
  Len(lib_ops) < MaxOps

\* onClick={() => handleCheckout(book.id)} up to await getSession()
LibClickCheckout(id) ==
  /\ LibShown(id, "available")
  /\ LibMayStartOp
  /\ lib_ops' = Append(lib_ops, [kind |-> "checkout", id |-> id, pc |-> "session"])
  /\ UNCHANGED <<session, exceptLib, lib_books, lib_loading, lib_error,
                 lib_totalPages, lib_srvOut>>

\* onClick={() => handleCheckin(book.id)} up to await getSession()
LibClickCheckin(id) ==
  /\ LibShown(id, "checked_out")
  /\ LibMayStartOp
  /\ lib_ops' = Append(lib_ops, [kind |-> "checkin", id |-> id, pc |-> "session"])
  /\ UNCHANGED <<session, exceptLib, lib_books, lib_loading, lib_error,
                 lib_totalPages, lib_srvOut>>

\* the catch block of handleCheckout / handleCheckin: setError, return
LibCatch(p, msg) ==
  /\ lib_error' = msg
  /\ lib_ops' = RemoveAt(lib_ops, p)
  /\ UNCHANGED lib_loading

\* getSession() of handleCheckout / handleCheckin resolves
LibOpGetSession(p) ==
  /\ lib_ops[p].pc = "session"
  /\ IF session
       THEN /\ lib_ops' = [lib_ops EXCEPT ![p].pc = "net"]
            /\ UNCHANGED <<lib_loading, lib_error>>
       ELSE LibCatch(p, NoSessionMsg)
  /\ UNCHANGED <<session, exceptLib, lib_books, lib_totalPages, lib_srvOut>>

\* POST /books/{id}/checkout or /checkin is answered with success; the
\* handler calls fetchBooks(): setLoading(true); setError('')
LibPostSucceeds(p) ==
  /\ lib_ops[p].pc = "net"
  /\ IF lib_ops[p].kind = "checkout"
       THEN /\ lib_ops[p].id \notin lib_srvOut
            /\ lib_srvOut' = lib_srvOut \cup {lib_ops[p].id}
       ELSE /\ lib_ops[p].id \in lib_srvOut
            /\ lib_srvOut' = lib_srvOut \ {lib_ops[p].id}
  /\ lib_ops' = [lib_ops EXCEPT ![p].pc = "r_session"]
  /\ lib_loading' = TRUE
  /\ lib_error' = ""
  /\ UNCHANGED <<session, exceptLib, lib_books, lib_totalPages>>

\* the POST is answered with a non-success status (with or without a
\* detail), or fetch() / response.json() throws
LibPostFails(p) ==
  /\ lib_ops[p].pc = "net"
  /\ \E msg \in { ServerDetail, ThrownMsg,
                  IF lib_ops[p].kind = "checkout" THEN CheckoutFailedMsg
                                                  ELSE LibCheckinFailedMsg } :
        LibCatch(p, msg)
  /\ UNCHANGED <<session, exceptLib, lib_books, lib_totalPages, lib_srvOut>>

\* fetchBooks has ended (finally: setLoading(false)); a handler that
\* awaited it returns
LibEndOfFetch(p) ==
  /\ lib_loading' = FALSE
  /\ lib_ops' = RemoveAt(lib_ops, p)

\* getSession() inside fetchBooks resolves
LibFetchGetSession(p) ==
  /\ lib_ops[p].pc = "r_session"
  /\ IF session
       THEN /\ lib_ops' = [lib_ops EXCEPT ![p].pc = "r_net"]
            /\ UNCHANGED <<lib_loading, lib_error>>
       ELSE /\ lib_error' = NoSessionMsg
            /\ LibEndOfFetch(p)
  /\ UNCHANGED <<session, exceptLib, lib_books, lib_totalPages, lib_srvOut>>

\* GET /books is answered with success: setBooks, setTotalPages
LibFetchSucceeds(p) ==
  /\ lib_ops[p].pc = "r_net"
  /\ lib_books' = BooksResponse.books
  /\ lib_totalPages' = MathCeil(BooksResponse.total, lib_limit)
  /\ LibEndOfFetch(p)
  /\ UNCHANGED <<session, exceptLib, lib_error, lib_srvOut>>

\* GET /books fails
LibFetchFails(p) ==
  /\ lib_ops[p].pc = "r_net"
  /\ lib_error' \in {ServerDetail, FetchBooksFailedMsg, ThrownMsg}
  /\ LibEndOfFetch(p)
  /\ UNCHANGED <<session, exceptLib, lib_books, lib_totalPages, lib_srvOut>>

\* the dashboard has been opened: the effect has called fetchBooks()
LibInit ==
  /\ session \in BOOLEAN
  /\ ClsRest
  /\ NotifRest
  /\ LoanRest
  /\ DocRest
  /\ AiRest
  /\ lib_mounted = TRUE
  /\ lib_books = <<>>
  /\ lib_loading = TRUE
  /\ lib_error = ""
  /\ lib_totalPages = 1
  /\ lib_ops = <<[kind |-> "fetch", id |-> 0, pc |-> "r_session"]>>
  /\ lib_srvOut \in SUBSET Books

LibNext ==
  \/ \E id \in Books : LibClickCheckout(id)
  \/ \E id \in Books : LibClickCheckin(id)
  \/ \E p \in LibSlots : LibOpGetSession(p)
  \/ \E p \in LibSlots : LibPostSucceeds(p)
  \/ \E p \in LibSlots : LibPostFails(p)
  \/ \E p \in LibSlots : LibFetchGetSession(p)
  \/ \E p \in LibSlots : LibFetchSucceeds(p)
  \/ \E p \in LibSlots : LibFetchFails(p)
  \/ SignIn
  \/ SignOut

SpecLibrary == LibInit /\ [][LibNext]_vars

\* C1: for each operation kind and each loan id at most one network call of
\* that kind for that id is in flight at any time, in the "my loans" view
\* and in the book grid: a second invocation for the same id issues no call.
C1_AtMostOneCallInFlight ==
  \A id \in Books :
     /\ \A kind \in {"checkin", "extend"} :
          Cardinality({p \in OpSlots : /\ ops[p].kind = kind /\ ops[p].id = id
                                       /\ ops[p].pc = "net"}) <= 1
     /\ Cardinality({p \in LibSlots : /\ lib_ops[p].kind = "checkin"
                                      /\ lib_ops[p].id = id
                                      /\ lib_ops[p].pc = "net"}) <= 1

(***************************************************************************)
(* LibraryDashboard after a search that matches no book: fetchBooks gets   *)
(* an empty page and asks for AI recommendations, which are listed in      *)
(* place of the grid, each available book with a "Check Out" button that   *)
(* calls handleCheckout(id, true).                                         *)
(*                                                                         *)
(* The invocations in `lib_ops` have one more field here,                  *)
(*   seen  the `aiSearchResults` of the render whose button was clicked    *)
(*         (the handler is a closure over that render's state)             *)
(* and a fetch goes on from "r_net" to "ai_session" and "ai_net", the      *)
(* awaits of fetchAISearchRecommendations.                                 *)
(***************************************************************************)
\* the answer to GET /books?search=...: nothing matches
SearchResponse == [ books |-> <<>>, total |-> 0 ]

\* the answer to GET /books/recommendations/ai-search
AiSearchResponse ==
  [i \in 1..MaxBooks |->
     [id |-> i, status |-> IF i \in lib_srvOut THEN "checked_out" ELSE "available"]]

SearchFetchOp == [kind |-> "fetch", id |-> 0, pc |-> "r_session", seen |-> Null]

\* bound of the model: no click while MaxOps handlers and timers are pending
AiMayStartOp ==
  Len(lib_ops) + lib_timers < MaxOps

\* the list is rendered when !loading, books.length === 0,
\* showAiRecommendations && aiSearchResults; a recommendation shows
\* "Check Out" when rec.book.status === 'available'
AiShown(id) ==
  /\ ~lib_loading
  /\ lib_books = <<>>
  /\ showAiRecommendations
  /\ aiSearchResults # Null
  /\ \E i \in 1..Len(Val(aiSearchResults)) :
        /\ Val(aiSearchResults)[i].id = id
        /\ Val(aiSearchResults)[i].status = "available"

\* onClick={() => handleCheckout(rec.book.id, true)} up to await getSession()
AiClickCheckout(id) ==
  /\ AiShown(id)
  /\ AiMayStartOp
  /\ lib_ops' = Append(lib_ops, [kind |-> "checkout", id |-> id, pc |-> "session",
                                 seen |-> aiSearchResults])
  /\ UNCHANGED <<session, exceptSearch, aiVars, lib_books, lib_loading, lib_error,
                 lib_totalPages, lib_srvOut>>

\* aiSearchResults.recommendations.map(rec => rec.book.id === bookId ? ... )
MarkCheckedOut(recs, id) ==
  [i \in 1..Len(recs) |->
     IF recs[i].id = id THEN [recs[i] EXCEPT !.status = "checked_out"] ELSE recs[i]]

\* what handleCheckout(id, true) does with the list once its POST has
\* succeeded: it rewrites the copy it holds, it does not fetch
AfterAiCheckout(o) ==
  aiSearchResults' = IF o.seen # Null THEN Some(MarkCheckedOut(Val(o.seen), o.id))
                                      ELSE aiSearchResults

\* the timer is armed with the success message
ArmTimerMutantForgets ==
  UNCHANGED lib_timers
ArmTimer ==
  lib_timers' = lib_timers + 1

\* POST /books/{id}/checkout of handleCheckout(id, true) is answered with
\* success: lines 256-273
AiPostSucceeds(p) ==
  /\ lib_ops[p].pc = "net"
  /\ lib_ops[p].kind = "checkout"
  /\ lib_ops[p].id \notin lib_srvOut
  /\ lib_srvOut' = lib_srvOut \cup {lib_ops[p].id}
  /\ AfterAiCheckout(lib_ops[p])
  /\ lib_error' = ""
  /\ lib_successMessage' = <<"checkout", lib_ops[p].id>>
  /\ ArmTimer
  /\ lib_ops' = RemoveAt(lib_ops, p)
  /\ UNCHANGED <<session, exceptSearch, showAiRecommendations, lib_books,
                 lib_loading, lib_totalPages>>

\* setTimeout(() => setSuccessMessage(''), 3000) fires
LibTimerFires ==
  /\ lib_timers > 0
  /\ lib_timers' = lib_timers - 1
  /\ lib_successMessage' = <<>>
  /\ UNCHANGED <<session, exceptSearch, aiSearchResults, showAiRecommendations,
                 lib_books, lib_loading, lib_error, lib_totalPages, lib_ops,
                 lib_srvOut>>

\* handleSearch: setCurrentPage(1); fetchBooks() up to await getSession()
HandleSearch ==
  /\ lib_mounted
  /\ AiMayStartOp
  /\ lib_ops' = Append(lib_ops, SearchFetchOp)
  /\ lib_loading' = TRUE
  /\ lib_error' = ""
  /\ UNCHANGED <<session, exceptSearch, aiVars, lib_books, lib_totalPages,
                 lib_srvOut>>

\* GET /books?search=... is answered with success and an empty page:
\* setBooks, setTotalPages, then `await fetchAISearchRecommendations(...)`
SearchFetchSucceeds(p) ==
  /\ lib_ops[p].pc = "r_net"
  /\ lib_books' = SearchResponse.books
  /\ lib_totalPages' = MathCeil(SearchResponse.total, lib_limit)
  /\ lib_ops' = [lib_ops EXCEPT ![p].pc = "ai_session"]
  /\ UNCHANGED <<session, exceptSearch, aiVars, lib_loading, lib_error, lib_srvOut>>

\* getSession() inside fetchAISearchRecommendations resolves: `if
\* (!session) return`, and fetchBooks ends
AiFetchGetSession(p) ==
  /\ lib_ops[p].pc = "ai_session"
  /\ IF session
       THEN /\ lib_ops' = [lib_ops EXCEPT ![p].pc = "ai_net"]
            /\ UNCHANGED lib_loading
       ELSE LibEndOfFetch(p)
  /\ UNCHANGED <<session, exceptSearch, aiVars, lib_books, lib_error,
                 lib_totalPages, lib_srvOut>>

\* the recommendations arrive: setAiSearchResults(data);
\* setShowAiRecommendations(true)
AiFetchSucceeds(p) ==
  /\ lib_ops[p].pc = "ai_net"
  /\ aiSearchResults' = Some(AiSearchResponse)
  /\ showAiRecommendations' = TRUE
  /\ LibEndOfFetch(p)
  /\ UNCHANGED <<session, exceptSearch, lib_successMessage, lib_timers, lib_books,
                 lib_error, lib_totalPages, lib_srvOut>>

\* the request for recommendations is answered with a non-success status
\* or throws: nothing is set (the error is only logged)
AiFetchFails(p) ==
  /\ lib_ops[p].pc = "ai_net"
  /\ LibEndOfFetch(p)
  /\ UNCHANGED <<session, exceptSearch, aiVars, lib_books, lib_error,
                 lib_totalPages, lib_srvOut>>

\* the search has been submitted: fetchBooks() awaits getSession()
SearchInit ==
  /\ session \in BOOLEAN
  /\ ClsRest
  /\ NotifRest
  /\ LoanRest
  /\ DocRest
  /\ AiRest
  /\ lib_mounted = TRUE
  /\ lib_books = <<>>
  /\ lib_loading = TRUE
  /\ lib_error = ""
  /\ lib_totalPages = 1
  /\ lib_ops = <<SearchFetchOp>>
  /\ lib_srvOut \in SUBSET Books

SearchSteps ==
  \/ \E id \in Books : AiClickCheckout(id)
  \/ HandleSearch
  \/ \E p \in LibSlots : LibOpGetSession(p)
  \/ \E p \in LibSlots : AiPostSucceeds(p)
  \/ \E p \in LibSlots : LibPostFails(p)
  \/ \E p \in LibSlots : LibFetchGetSession(p)
  \/ \E p \in LibSlots : SearchFetchSucceeds(p)
  \/ \E p \in LibSlots : LibFetchFails(p)
  \/ \E p \in LibSlots : AiFetchGetSession(p)
  \/ \E p \in LibSlots : AiFetchSucceeds(p)
  \/ \E p \in LibSlots : AiFetchFails(p)
  \/ LibTimerFires

SearchNext == SearchSteps \/ SignIn \/ SignOut

SpecSearch == SearchInit /\ [][SearchNext]_vars

\* C23 (as claimed): a checkout that succeeds makes the view that started
\* it fetch its list again: in the step in which the POST is answered with
\* success, the handler goes on to the fetch of the list.
C23_CheckoutRefreshesInvokingView ==
  [][ (\E id \in Books : id \in lib_srvOut' /\ id \notin lib_srvOut) =>
         \E q \in LibSlots : /\ Len(lib_ops') = Len(lib_ops)
                             /\ lib_ops[q].kind = "checkout"
                             /\ lib_ops[q].pc = "net"
                             /\ lib_ops'[q].pc = "r_session" ]_vars

\* C36 (as claimed): in the list of AI recommendations every book that
\* was checked out from the list is marked 'checked_out', also when the
\* checkouts overlapped: the step in which a checkout succeeds marks its
\* book and leaves every mark that the list already shows.
C36_CheckedOutStaysMarked ==
  [][ \A p \in LibSlots : (AiPostSucceeds(p) /\ aiSearchResults # Null) =>
        \A i \in 1..Len(Val(aiSearchResults)) :
           ( \/ Val(aiSearchResults)[i].id = lib_ops[p].id
             \/ Val(aiSearchResults)[i].status = "checked_out" )
              => Val(aiSearchResults')[i].status = "checked_out" ]_vars

(***************************************************************************)
(* DocumentDashboard (src/components/DocumentDashboard.tsx): the list of   *)
(* the user's documents with its search box, its file-type filter and its  *)
(* selection. Strings that the code takes apart (names, search text, file   *)
(* types) are sequences of characters. All documents fit on page 1.         *)
(*                                                                         *)
(* An invocation in `doc_ops` is a record with                              *)
(*   kind      "fetch" (fetchDocuments from the effect), "delete", "bulk"   *)
(*   ids       the ids to delete (the selection of the render whose button  *)
(*             was clicked, for "bulk")                                     *)
(*   pc        "session", "net", "r_session", "r_net" as in UserCheckouts   *)
(*   fileType  the selectedFileType of the render that made the closure     *)
(***************************************************************************)
Docs == 1..MaxDocs
doc_limit == 10
DeleteFailedMsg == "Failed to delete document"
BulkDeleteFailedMsg == "Failed to delete documents"
FetchDocumentsFailedMsg == "Failed to fetch documents"
Unknown == <<"u", "n", "k", "n", "o", "w", "n">>

\* original_name of the documents: "a.p", "B.t", "ab.p", "a.p", ...
DocName(d) ==
  CASE d % 3 = 1 -> <<"a", ".", "p">>
    [] d % 3 = 2 -> <<"B", ".", "t">>
    [] OTHER     -> <<"a", "b", ".", "p">>

\* what the user types into the search box
SearchTerms == { <<>>, <<"A">>, <<"b">> }

\* String.prototype.toLowerCase on the letters that occur
toLowerCase(str) ==
  [i \in 1..Len(str) |-> CASE str[i] = "A" -> "a"
                           [] str[i] = "B" -> "b"
                           [] OTHER        -> str[i]]

\* String.prototype.includes
includes(str, sub) ==
  \E i \in 0..(Len(str) - Len(sub)) : SubSeq(str, i + 1, i + Len(sub)) = sub

\* doc.original_name.split('.').pop()?.toLowerCase() || 'unknown'
fileExtension(name) ==
  LET dots == { i \in 1..Len(name) : name[i] = "." }
      last == IF dots = {} THEN 0 ELSE CHOOSE i \in dots : \A j \in dots : j <= i
      seg  == SubSeq(name, last + 1, Len(name))
  IN  IF seg = <<>> THEN Unknown ELSE toLowerCase(seg)

\* the callback of documents.filter(...)
matchesFilter(doc, term, type) ==
  LET matchesSearch == includes(toLowerCase(doc.original_name), toLowerCase(term))
  IN  IF type = AllTypes
        THEN matchesSearch
        ELSE matchesSearch /\ fileExtension(doc.original_name) = type

\* const filteredDocuments = documents.filter(...): the visible candidates
filteredDocuments ==
  SelectSeq(documents, LAMBDA doc : matchesFilter(doc, searchTerm, selectedFileType))
VisibleIds == { filteredDocuments[i].id : i \in 1..Len(filteredDocuments) }

\* getUniqueFileTypes(): the entries of the filter besides 'all'
getUniqueFileTypes ==
  { fileExtension(documents[i].original_name) : i \in 1..Len(documents) }

\* the answer to GET /api/documents?page=1&limit=10[&file_type=...]; the
\* route is not part of the sources: it is taken to filter by extension
DocumentsResponse(type) ==
  LET ids == SetToSeq({ d \in doc_srv :
                          type = AllTypes \/ fileExtension(DocName(d)) = type })
  IN  [ documents |-> [i \in 1..Min(Len(ids), doc_limit) |->
                         [id |-> ids[i], original_name |-> DocName(ids[i])]],
        total |-> Len(ids) ]

DocSlots == 1..Len(doc_ops)

\* bound of the model: no new invocation while MaxDocOps are in flight
DocMayStartOp ==
  Len(doc_ops) < MaxDocOps

\* the body of setSelectedDocuments(prev => ...) in handleSelectDocument
toggleMutantOnlyAdds(prev, id) == prev \cup {id}
toggle(prev, id) ==
  IF id \in prev THEN prev \ {id} ELSE prev \cup {id}

\* the set that handleSelectAll passes to setSelectedDocuments
selectAll(selected, filtered) ==
  IF Cardinality(selected) = Len(filtered)
    THEN {}
    ELSE { filtered[i].id : i \in 1..Len(filtered) }

\* the `checked` attribute of the select-all box
isFullySelected(selected, filtered) ==
  Len(filtered) > 0 /\ Cardinality(selected) = Len(filtered)

\* the rows are rendered when !loading and filteredDocuments is not empty
RowShown(id) ==
  ~doc_loading /\ id \in VisibleIds

\* onChange={() => handleSelectDocument(document.id)}
handleSelectDocument(id) ==
  /\ RowShown(id)
  /\ selectedDocuments' = toggle(selectedDocuments, id)
  /\ UNCHANGED <<session, exceptDocs, documents, doc_loading, doc_error,
                 doc_totalPages, selectedFileType, searchTerm, deleting, doc_ops,
                 doc_srv>>

\* onChange={handleSelectAll} of the box in the header of the list
handleSelectAll ==
  /\ ~doc_loading
  /\ Len(filteredDocuments) > 0
  /\ selectedDocuments' = selectAll(selectedDocuments, filteredDocuments)
  /\ UNCHANGED <<session, exceptDocs, documents, doc_loading, doc_error,
                 doc_totalPages, selectedFileType, searchTerm, deleting, doc_ops,
                 doc_srv>>

\* "Clear Selection": onClick={() => setSelectedDocuments(new Set())}
ClearSelection ==
  /\ selectedDocuments # {}
  /\ selectedDocuments' = {}
  /\ UNCHANGED <<session, exceptDocs, documents, doc_loading, doc_error,
                 doc_totalPages, selectedFileType, searchTerm, deleting, doc_ops,
                 doc_srv>>

\* onChange={(e) => setSearchTerm(e.target.value)}: nothing is fetched
SetSearchTerm(t) ==
  /\ t # searchTerm
  /\ searchTerm' = t
  /\ UNCHANGED <<session, exceptDocs, documents, doc_loading, doc_error,
                 doc_totalPages, selectedFileType, selectedDocuments, deleting,
                 doc_ops, doc_srv>>

\* onChange={(e) => setSelectedFileType(e.target.value)}, and the effect
\* on [currentPage, selectedFileType]: fetchDocuments() up to getSession()
SetFileType(t) ==
  /\ t \in {AllTypes} \cup getUniqueFileTypes
  /\ t # selectedFileType
  /\ DocMayStartOp
  /\ selectedFileType' = t
  /\ doc_loading' = TRUE
  /\ doc_error' = ""
  /\ doc_ops' = Append(doc_ops, [kind |-> "fetch", ids |-> {}, pc |-> "r_session",
                                 fileType |-> t])
  /\ UNCHANGED <<session, exceptDocs, documents, doc_totalPages, searchTerm,
                 selectedDocuments, deleting, doc_srv>>

\* onClick={() => handleDelete(document.id)}, confirmed by the user, up to
\* await getSession(): setDeleting(true)
ClickDelete(id) ==
  /\ RowShown(id)
  /\ ~deleting
  /\ DocMayStartOp
  /\ deleting' = TRUE
  /\ doc_ops' = Append(doc_ops, [kind |-> "delete", ids |-> {id}, pc |-> "session",
                                 fileType |-> selectedFileType])
  /\ UNCHANGED <<session, exceptDocs, documents, doc_loading, doc_error,
                 doc_totalPages, selectedFileType, searchTerm, selectedDocuments,
                 doc_srv>>

\* onClick={handleBulkDelete} (the bar is rendered when the selection is
\* not empty), confirmed by the user, up to await getSession()
ClickBulkDelete ==
  /\ selectedDocuments # {}
  /\ ~deleting
  /\ DocMayStartOp
  /\ deleting' = TRUE
  /\ doc_ops' = Append(doc_ops, [kind |-> "bulk", ids |-> selectedDocuments,
                                 pc |-> "session", fileType |-> selectedFileType])
  /\ UNCHANGED <<session, exceptDocs, documents, doc_loading, doc_error,
                 doc_totalPages, selectedFileType, searchTerm, selectedDocuments,
                 doc_srv>>

\* catch and finally of handleDelete / handleBulkDelete
DocCatch(p, msg) ==
  /\ doc_error' = msg
  /\ deleting' = FALSE
  /\ doc_ops' = RemoveAt(doc_ops, p)
  /\ UNCHANGED <<doc_loading, selectedDocuments>>

\* getSession() of handleDelete / handleBulkDelete resolves
DocOpGetSession(p) ==
  /\ doc_ops[p].pc = "session"
  /\ IF session
       THEN /\ doc_ops' = [doc_ops EXCEPT ![p].pc = "net"]
            /\ UNCHANGED <<doc_loading, doc_error, deleting, selectedDocuments>>
       ELSE DocCatch(p, NoSessionMsg)
  /\ UNCHANGED <<session, exceptDocs, documents, doc_totalPages, selectedFileType,
                 searchTerm, doc_srv>>

\* the selection after a deletion has succeeded: handleDelete removes the
\* id, handleBulkDelete empties the set
SelectionAfterDeleteMutantRemovesSent(o) ==
  selectedDocuments \ o.ids
SelectionAfterDelete(o) ==
  IF o.kind = "delete" THEN selectedDocuments \ o.ids ELSE {}

\* DELETE /api/documents/{id} or POST /api/documents/bulk-delete is
\* answered with success; the handler calls fetchDocuments():
\* setLoading(true); setError('')
DocDeleteSucceeds(p) ==
  /\ doc_ops[p].pc = "net"
  /\ doc_ops[p].kind = "delete" => doc_ops[p].ids \subseteq doc_srv
  /\ doc_srv' = doc_srv \ doc_ops[p].ids
  /\ selectedDocuments' = SelectionAfterDelete(doc_ops[p])
  /\ doc_ops' = [doc_ops EXCEPT ![p].pc = "r_session"]
  /\ doc_loading' = TRUE
  /\ doc_error' = ""
  /\ UNCHANGED <<session, exceptDocs, documents, doc_totalPages, selectedFileType,
                 searchTerm, deleting>>

\* the request is answered with a non-success status, with or without a
\* detail
DocDeleteFails(p) ==
  /\ doc_ops[p].pc = "net"
  /\ \E msg \in { ServerDetail,
                  IF doc_ops[p].kind = "delete" THEN DeleteFailedMsg
                                                ELSE BulkDeleteFailedMsg } :
        DocCatch(p, msg)
  /\ UNCHANGED <<session, exceptDocs, documents, doc_totalPages, selectedFileType,
                 searchTerm, doc_srv>>

\* fetchDocuments has ended (finally: setLoading(false)); a handler that
\* awaited it runs its own finally (setDeleting(false)) and returns
DocEndOfFetch(p) ==
  /\ doc_loading' = FALSE
  /\ deleting' = IF doc_ops[p].kind = "fetch" THEN deleting ELSE FALSE
  /\ doc_ops' = RemoveAt(doc_ops, p)

\* getSession() inside fetchDocuments resolves
DocFetchGetSession(p) ==
  /\ doc_ops[p].pc = "r_session"
  /\ IF session
       THEN /\ doc_ops' = [doc_ops EXCEPT ![p].pc = "r_net"]
            /\ UNCHANGED <<doc_loading, doc_error, deleting>>
       ELSE /\ doc_error' = NoSessionMsg
            /\ DocEndOfFetch(p)
  /\ UNCHANGED <<session, exceptDocs, documents, doc_totalPages, selectedFileType,
                 searchTerm, selectedDocuments, doc_srv>>

\* GET /api/documents is answered with success: setDocuments, setTotalPages
DocFetchSucceeds(p) ==
  /\ doc_ops[p].pc = "r_net"
  /\ LET data == DocumentsResponse(doc_ops[p].fileType)
     IN  /\ documents' = data.documents
         /\ doc_totalPages' = MathCeil(data.total, doc_limit)
  /\ DocEndOfFetch(p)
  /\ UNCHANGED <<session, exceptDocs, doc_error, selectedFileType, searchTerm,
                 selectedDocuments, doc_srv>>

\* GET /api/documents fails
DocFetchFails(p) ==
  /\ doc_ops[p].pc = "r_net"
  /\ doc_error' \in {ServerDetail, FetchDocumentsFailedMsg}
  /\ DocEndOfFetch(p)
  /\ UNCHANGED <<session, exceptDocs, documents, doc_totalPages, selectedFileType,
                 searchTerm, selectedDocuments, doc_srv>>

\* the dashboard has been opened: the effect has called fetchDocuments()
DocInit ==
  /\ session \in BOOLEAN
  /\ ClsRest
  /\ NotifRest
  /\ LoanRest
  /\ LibRest
  /\ documents = <<>>
  /\ doc_loading = TRUE
  /\ doc_error = ""
  /\ doc_totalPages = 1
  /\ selectedFileType = AllTypes
  /\ searchTerm = <<>>
  /\ selectedDocuments = {}
  /\ deleting = FALSE
  /\ doc_ops = <<[kind |-> "fetch", ids |-> {}, pc |-> "r_session",
                  fileType |-> AllTypes]>>
  /\ doc_srv = Docs

DocNext ==
  \/ \E id \in Docs : handleSelectDocument(id)
  \/ handleSelectAll
  \/ ClearSelection
  \/ \E t \in SearchTerms : SetSearchTerm(t)
  \/ \E t \in {AllTypes} \cup getUniqueFileTypes : SetFileType(t)
  \/ \E id \in Docs : ClickDelete(id)
  \/ ClickBulkDelete
  \/ \E p \in DocSlots : DocOpGetSession(p)
  \/ \E p \in DocSlots : DocDeleteSucceeds(p)
  \/ \E p \in DocSlots : DocDeleteFails(p)
  \/ \E p \in DocSlots : DocFetchGetSession(p)
  \/ \E p \in DocSlots : DocFetchSucceeds(p)
  \/ \E p \in DocSlots : DocFetchFails(p)
  \/ SignIn
  \/ SignOut

SpecDocuments == DocInit /\ [][DocNext]_vars

(***************************************************************************)
(* The check boxes of a loaded list: the documents have been fetched,      *)
(* nothing is in flight, and the user works with the check boxes and the   *)
(* search box.                                                             *)
(***************************************************************************)
Candidates == 1..MaxCandidates

SelInit ==
  /\ session = TRUE
  /\ ClsRest
  /\ NotifRest
  /\ LoanRest
  /\ LibRest
  /\ doc_srv \in SUBSET Candidates
  /\ selectedFileType \in {AllTypes} \cup { fileExtension(DocName(d)) : d \in doc_srv }
  /\ documents = DocumentsResponse(selectedFileType).documents
  /\ doc_loading = FALSE
  /\ doc_error = ""
  /\ doc_totalPages = MathCeil(DocumentsResponse(selectedFileType).total, doc_limit)
  /\ searchTerm = <<>>
  /\ selectedDocuments = {}
  /\ deleting = FALSE
  /\ doc_ops = <<>>

SelNext ==
  \/ \E id \in Candidates : handleSelectDocument(id)
  \/ handleSelectAll
  \/ ClearSelection
  \/ \E t \in SearchTerms : SetSearchTerm(t)

SpecSelection == SelInit /\ [][SelNext]_vars

\* C25: toggle(id) flips the membership of id and of no other id (the
\* updater builds a new set from the previous one); toggling an id twice
\* gives the selection back; with the candidates 1, 2, 3, select-all
\* followed by toggle(2) gives {1, 3}, which is not fully selected.
C25_ToggleFlipsExactlyOne ==
  /\ [][ \A id \in Candidates : handleSelectDocument(id) =>
            /\ id \in selectedDocuments' <=> id \notin selectedDocuments
            /\ \A other \in Candidates \ {id} :
                  other \in selectedDocuments' <=> other \in selectedDocuments ]_vars
  /\ [](\A id \in Candidates :
           toggle(toggle(selectedDocuments, id), id) = selectedDocuments)
  /\ [](VisibleIds = {1, 2, 3} =>
           LET all == selectAll({}, filteredDocuments)
           IN  /\ all = {1, 2, 3}
               /\ toggle(all, 2) = {1, 3}
               /\ ~isFullySelected(toggle(all, 2), filteredDocuments))

\* three candidates, of which the first and the third are selected
C25_Witness ==
  /\ VisibleIds = {1, 2, 3}
  /\ selectedDocuments = {1, 3}
  /\ ~isFullySelected(selectedDocuments, filteredDocuments)

\* C24 (as claimed): once the list has been refreshed, the selection holds
\* only ids of visible candidates, after any sequence of toggles,
\* select-all, deletions, changes of the search text or the file type and
\* refreshes: every fetch of the list that succeeds leaves the selection
\* within the candidates it makes visible.
C24_SelectionWithinVisibleCandidates ==
  [][ (\E p \in DocSlots : DocFetchSucceeds(p)) =>
         selectedDocuments' \subseteq VisibleIds' ]_vars

\* C26 (as claimed): select-all makes the selection exactly the set of the
\* visible candidates whenever not all of them are selected, whatever the
\* selection held before; clear makes it empty.
C26_SelectAllSelectsTheVisible ==
  [][ /\ (handleSelectAll /\ ~(VisibleIds \subseteq selectedDocuments)) =>
            selectedDocuments' = VisibleIds
      /\ ClearSelection => selectedDocuments' = {} ]_vars

\* C37 (as claimed): whenever the select-all box is checked (as many ids
\* selected as candidates are visible, and at least one), every visible
\* candidate is selected, also after the search text or the file type has
\* changed what is visible.
C37_CheckedMeansAllVisibleSelected ==
  isFullySelected(selectedDocuments, filteredDocuments) =>
     VisibleIds \subseteq selectedDocuments

\* invocation p is a bulk deletion
IsBulk(p) == doc_ops[p].kind = "bulk"

\* C38: a bulk deletion starts only with a selection that is not empty and
\* sends the ids that were selected when it was invoked, whatever is
\* ticked while it runs. When the request succeeds these ids are deleted,
\* the selection is emptied and the list is fetched again; when it fails
\* (no session or a non-success status) the selection, the list and the
\* server's documents stay as they are and the error is set. The deleting
\* flag is set while the invocation runs and false once it has returned.
C38_BulkDelete ==
  /\ [](deleting = (\E p \in DocSlots : doc_ops[p].kind \in {"delete", "bulk"}))
  /\ [][ /\ ClickBulkDelete =>
               /\ selectedDocuments # {}
               /\ doc_ops'[Len(doc_ops')].kind = "bulk"
               /\ doc_ops'[Len(doc_ops')].ids = selectedDocuments
         /\ \A p \in DocSlots : IsBulk(p) =>
               /\ (Len(doc_ops') = Len(doc_ops)) => doc_ops'[p].ids = doc_ops[p].ids
               /\ DocDeleteSucceeds(p) =>
                     /\ doc_srv' = doc_srv \ doc_ops[p].ids
                     /\ selectedDocuments' = {}
                     /\ doc_ops'[p].pc = "r_session"
                     /\ doc_loading'
                     /\ documents' = documents
               /\ (DocDeleteFails(p) \/ (DocOpGetSession(p) /\ ~session)) =>
                     /\ selectedDocuments' = selectedDocuments
                     /\ documents' = documents
                     /\ doc_srv' = doc_srv
                     /\ doc_error' \in {NoSessionMsg, ServerDetail, BulkDeleteFailedMsg}
                     /\ doc_ops' = RemoveAt(doc_ops, p)
               /\ (doc_ops' = RemoveAt(doc_ops, p)) => ~deleting' ]_vars

\* a bulk deletion of documents 1 and 2 has succeeded: both are deleted on
\* the server and nothing is selected; the refresh has not been answered
\* yet, so both are still listed and the deleting flag is set
C38_Witness ==
  /\ doc_ops # <<>>
  /\ doc_ops[1].kind = "bulk" /\ doc_ops[1].ids = {1, 2} /\ doc_ops[1].pc = "r_net"
  /\ doc_srv = {}
  /\ selectedDocuments = {}
  /\ Len(documents) = 2
  /\ deleting

NotifInit ==
  /\ session \in BOOLEAN
  /\ ClsRest
  /\ LoanRest
  /\ LibRest
  /\ DocRest
  /\ NotifRest

NotifNext ==
  \/ NotifMount
  \/ NotifUnmount
  \/ NotifTick
  \/ NotifRefresh
  \/ \E p \in FetchSlots : NotifGetSession(p)
  \/ \E p \in FetchSlots : NotifRespond(p)
  \/ \E p \in FetchSlots : NotifDeliver(p)
  \/ NotifServerChange
  \/ SignIn
  \/ SignOut

SpecNotif == NotifInit /\ [][NotifNext]_vars

\* C32 (as claimed): in the mounted hook a non-empty error and a non-null
\* summary never coexist, also when overlapping fetches complete in any
\* order: error # '' implies summary = null.
C32_ErrorExcludesSummary ==
  (mounted /\ notif_error # "") => notifications = Null

\* the view has been opened: useState initial values, and the effect has
\* called fetchCheckouts(), which awaits getSession()
LoanInit ==
  /\ session \in BOOLEAN
  /\ ClsRest
  /\ NotifRest
  /\ LibRest
  /\ DocRest
  /\ checkouts = <<>>
  /\ loading = TRUE
  /\ error = ""
  /\ successMessage = <<>>
  /\ checkinLoading = {}
  /\ extendLoading = {}
  /\ currentPage = 1
  /\ totalPages = 1
  /\ timers = 0
  /\ ops = <<[kind |-> "fetch", id |-> 0, page |-> 1, pc |-> "r_session",
              posted |-> "n/a", refreshes |-> 1]>>
  /\ srvLoans \in { 1..n : n \in 0..MaxBooks }
  /\ srvDue = [b \in Books |-> InitialDue(b)]
  /\ srvRenewed = {}
  /\ now = 0
  /\ uc_mounted = TRUE

\* the view is left: the component unmounts. It has no effect cleanup, so
\* the handlers in flight and the success timers go on.
UCUnmount ==
  /\ uc_mounted
  /\ uc_mounted' = FALSE
  /\ UNCHANGED <<session, clsVars, notifVars, libVars, docVars, checkouts, loading, error,
                 successMessage, checkinLoading, extendLoading, currentPage,
                 totalPages, timers, ops, srvLoans, srvDue, srvRenewed, now>>

OpStep(p) ==
  /\ p \in OpSlots
  /\ \/ OpGetSession(p)
     \/ OpPostSucceeds(p)
     \/ OpPostFails(p)
     \/ FetchGetSession(p)
     \/ FetchSucceeds(p)
     \/ FetchFails(p)

Next ==
  \/ \E id \in Books : ClickCheckin(id)
  \/ \E id \in Books : ClickExtend(id)
  \/ \E p \in OpSlots : OpGetSession(p)
  \/ \E p \in OpSlots : OpPostSucceeds(p)
  \/ \E p \in OpSlots : OpPostFails(p)
  \/ \E p \in OpSlots : FetchGetSession(p)
  \/ \E p \in OpSlots : FetchSucceeds(p)
  \/ \E p \in OpSlots : FetchFails(p)
  \/ TimerFires
  \/ SignIn
  \/ SignOut

Spec == LoanInit /\ [][Next]_vars

\* every await settles: an invocation in flight is resumed eventually
FairSpec == Spec /\ \A p \in 1..MaxOps : WF_vars(OpStep(p))

(***************************************************************************)
(* The success messages of the two views that show one: the "my loans"     *)
(* view and the library's list of AI recommendations. Either view is open  *)
(* (the other is at rest); a timer whose delay has elapsed runs its        *)
(* callback, whatever the user does.                                       *)
(***************************************************************************)
\* the delays of the setTimeout calls
SUCCESS_MESSAGE_MS == 5000
LIB_SUCCESS_MESSAGE_MS == 3000

MessagesInit == LoanInit \/ SearchInit
MessagesNext == Next \/ SearchSteps
SpecMessages ==
  /\ MessagesInit
  /\ [][MessagesNext]_vars
  /\ WF_vars(TimerFires)
  /\ WF_vars(LibTimerFires)

\* C21: every success message of a check-in, a renewal or a checkout is
\* cleared by a timer with a fixed delay, scheduled with the message: while
\* a message is shown a timer is pending, the callback of a timer empties
\* the message, and no message stays for ever, whatever the user does.
C21_SuccessMessageIsCleared ==
  /\ SUCCESS_MESSAGE_MS = 5000 /\ LIB_SUCCESS_MESSAGE_MS = 3000
  /\ [](successMessage # <<>> => timers > 0)
  /\ [](lib_successMessage # <<>> => lib_timers > 0)
  /\ [][ /\ timers' < timers => successMessage' = <<>>
         /\ lib_timers' < lib_timers => lib_successMessage' = <<>> ]_vars
  /\ []<>(successMessage = <<>>)
  /\ []<>(lib_successMessage = <<>>)

\* a check-in has succeeded and has returned; its message is shown and
\* its timer is pending
C21_Witness ==
  /\ successMessage # <<>> /\ successMessage[1] = "checkin"
  /\ timers = 1
  /\ ops = <<>>

\* C34 (as claimed): a success message is cleared only by the timer that
\* was scheduled with it, never by the timer of an earlier success. The
\* timers of a view have one delay and fire in the order they were
\* scheduled, and the message shown is that of the latest success: the
\* timer that clears a shown message is the only one pending.
C34_OnlyOwnTimerClears ==
  [][ /\ (timers' < timers /\ successMessage # <<>>) => timers = 1
      /\ (lib_timers' < lib_timers /\ lib_successMessage # <<>>)
            => lib_timers = 1 ]_vars

(***************************************************************************)
(* The "my loans" view with more loans than fit on one page: the user      *)
(* turns the pages and checks in loans of the last page.                   *)
(***************************************************************************)
\* the loans of the second page
LastPageBooks == (limit + 1)..(limit + MaxBooks)

\* the effect on [currentPage] after the page has changed: fetchCheckouts()
\* of the new render, up to await getSession()
PageChanged ==
  /\ ops' = Append(ops, [FetchOp EXCEPT !.page = currentPage'])
  /\ loading' = TRUE
  /\ error' = ""

\* "Next": setCurrentPage(prev => Math.min(prev + 1, totalPages)); the
\* buttons are rendered when totalPages > 1
NextPage ==
  /\ uc_mounted
  /\ totalPages > 1
  /\ currentPage # totalPages
  /\ MayStartOp
  /\ currentPage' = Min(currentPage + 1, totalPages)
  /\ PageChanged
  /\ UNCHANGED <<session, exceptLoans, checkouts, successMessage, checkinLoading,
                 extendLoading, totalPages, timers, srvLoans, srvDue, srvRenewed,
                 now>>

\* "Previous": setCurrentPage(prev => Math.max(prev - 1, 1))
PrevPage ==
  /\ uc_mounted
  /\ totalPages > 1
  /\ currentPage # 1
  /\ MayStartOp
  /\ currentPage' = IF currentPage - 1 >= 1 THEN currentPage - 1 ELSE 1
  /\ PageChanged
  /\ UNCHANGED <<session, exceptLoans, checkouts, successMessage, checkinLoading,
                 extendLoading, totalPages, timers, srvLoans, srvDue, srvRenewed,
                 now>>

\* the view has been opened by a user with one to MaxBooks loans more than
\* a page holds
PagesInit ==
  /\ session \in BOOLEAN
  /\ ClsRest
  /\ NotifRest
  /\ LibRest
  /\ DocRest
  /\ checkouts = <<>>
  /\ loading = TRUE
  /\ error = ""
  /\ successMessage = <<>>
  /\ checkinLoading = {}
  /\ extendLoading = {}
  /\ currentPage = 1
  /\ totalPages = 1
  /\ timers = 0
  /\ ops = <<[kind |-> "fetch", id |-> 0, page |-> 1, pc |-> "r_session",
              posted |-> "n/a", refreshes |-> 1]>>
  /\ srvLoans \in { 1..(limit + n) : n \in 1..MaxBooks }
  /\ srvDue = [b \in 1..(limit + MaxBooks) |-> InitialDue(b)]
  /\ srvRenewed = {}
  /\ now = 0
  /\ uc_mounted = TRUE

PagesNext ==
  \/ NextPage
  \/ PrevPage
  \/ \E id \in LastPageBooks : ClickCheckin(id)
  \/ \E p \in OpSlots : OpGetSession(p)
  \/ \E p \in OpSlots : OpPostSucceeds(p)
  \/ \E p \in OpSlots : OpPostFails(p)
  \/ \E p \in OpSlots : FetchGetSession(p)
  \/ \E p \in OpSlots : FetchSucceeds(p)
  \/ \E p \in OpSlots : FetchFails(p)
  \/ TimerFires
  \/ SignIn
  \/ SignOut

SpecPages == PagesInit /\ [][PagesNext]_vars

\* C30 (as claimed): the current page always exists: once nothing is in
\* flight, 1 <= currentPage <= max(1, totalPages), also after a check-in
\* has removed the last loan of the last page.
C30_CurrentPageExists ==
  ops = <<>> =>
     /\ currentPage >= 1
     /\ currentPage <= (IF totalPages >= 1 THEN totalPages ELSE 1)

\* C31 (as claimed): when calls of fetchCheckouts overlap, the list shown
\* once none is in flight is the response to the request for the current
\* page: with nothing in flight and no error shown, the rows are the loans
\* the server holds for page currentPage.
C31_LatestRequestIsDisplayed ==
  (ops = <<>> /\ error = "") =>
     LET books == MyCheckoutsResponse(currentPage).books
     IN  /\ Len(checkouts) = Len(books)
         /\ \A i \in 1..Len(books) : checkouts[i].id = books[i].id

(***************************************************************************)
(* The "my loans" view left open while time passes.                        *)
(***************************************************************************)
\* a day passes; no handler runs: nothing recomputes the stored fields
ClockTick ==
  /\ now < MaxDays * MS_PER_DAY
  /\ now' = now + MS_PER_DAY
  /\ UNCHANGED <<session, exceptLoans, checkouts, loading, error, successMessage,
                 checkinLoading, extendLoading, currentPage, totalPages, timers,
                 ops, srvLoans, srvDue, srvRenewed>>

ClockNext ==
  \/ Next
  \/ ClockTick

SpecClock == LoanInit /\ [][ClockNext]_vars

\* C16: whenever the list is rendered, each loan's is_overdue says whether
\* its due date lies before the current time.
C16_DerivedFieldsFollowTheClock ==
  (uc_mounted /\ ~loading) =>
     \A i \in 1..Len(checkouts) :
        checkouts[i].due_date # Null =>
           (checkouts[i].is_overdue <=> Val(checkouts[i].due_date) < now)

(***************************************************************************)
(* Teardown: the page with the "my loans" view and a component using the   *)
(* notification hook is opened and left again while the fetches of the two *)
(* effects are in flight; the user starts no operation.                    *)
(***************************************************************************)
TeardownNext ==
  \/ NotifMount
  \/ NotifUnmount
  \/ \E p \in FetchSlots : NotifGetSession(p)
  \/ \E p \in FetchSlots : NotifRespond(p)
  \/ \E p \in FetchSlots : NotifDeliver(p)
  \/ UCUnmount
  \/ \E p \in OpSlots : FetchGetSession(p)
  \/ \E p \in OpSlots : FetchSucceeds(p)
  \/ \E p \in OpSlots : FetchFails(p)
  \/ SignIn
  \/ SignOut

SpecTeardown == LoanInit /\ [][TeardownNext]_vars

Mutating(p) == ops[p].kind \in {"checkin", "extend"}

\* the step in which invocation p is resumed
StepOf(p) ==
  \/ ops' = RemoveAt(ops, p)
  \/ Len(ops') = Len(ops) /\ ops'[p] # ops[p]

\* ... and learns that its POST succeeded (it then schedules the timer)
SuccessStepOf(p) ==
  StepOf(p) /\ Mutating(p) /\ ops[p].pc = "net" /\ timers' = timers + 1

\* ... or fails: no session, a non-success status or a thrown error
FailureStepOf(p) ==
  /\ StepOf(p) /\ Mutating(p) /\ ops[p].pc \in {"session", "net"}
  /\ timers' = timers
  /\ ~(Len(ops') = Len(ops) /\ ops'[p].pc = "net")

\* In the "my loans" view at most one check-in and at most one renewal per
\* loan is in flight (the button is disabled while the id is pending).
UC_AtMostOneInFlight ==
  \A id \in Books : \A kind \in {"checkin", "extend"} :
     Cardinality({p \in OpSlots : ops[p].kind = kind /\ ops[p].id = id}) <= 1

\* C2: per loan and operation kind the pending state goes Idle -> Pending ->
\* Idle: an id is in its pending set exactly while an invocation for it runs
\* (it is added in the click's task, before getSession and the POST), and
\* every id that is pending is removed again, whether the operation succeeds
\* or fails: no id stays pending for ever.
C2_PendingLifecycle ==
  /\ [](\A id \in Books :
          /\ id \in checkinLoading <=>
                \E p \in OpSlots : ops[p].kind = "checkin" /\ ops[p].id = id
          /\ id \in extendLoading <=>
                \E p \in OpSlots : ops[p].kind = "extend" /\ ops[p].id = id)
  /\ \A id \in Books :
        /\ []<>(id \notin checkinLoading)
        /\ []<>(id \notin extendLoading)

\* a check-in has failed with a non-success status and nothing is pending
C2_Witness ==
  /\ error = CheckinFailedMsg
  /\ checkinLoading = {}
  /\ extendLoading = {}
  /\ ops = <<>>

\* C3: a successful check-in or renewal calls fetchCheckouts exactly once,
\* in the task that handled the successful response: not before it, and
\* the POST is no longer in flight when the refresh is.
C3_OneRefreshAfterSuccess ==
  /\ [](\A p \in OpSlots : Mutating(p) =>
          /\ ops[p].pc \in {"session", "net"} => ops[p].refreshes = 0
          /\ ops[p].pc \in {"r_session", "r_net"} =>
                ops[p].refreshes = 1 /\ ops[p].posted = "ok")
  /\ [][\A p \in OpSlots :
          /\ SuccessStepOf(p) =>
               /\ Len(ops') = Len(ops)
               /\ ops'[p].pc = "r_session"
               /\ ops'[p].refreshes = 1
               /\ loading' /\ error' = ""
          /\ (StepOf(p) /\ Mutating(p) /\ Len(ops') = Len(ops)) =>
               ops'[p].refreshes <= 1]_vars

C3_Witness ==
  \E p \in OpSlots :
     /\ ops[p].kind = "checkin" /\ ops[p].pc = "r_net"
     /\ ops[p].refreshes = 1
     /\ ops[p].id \notin srvLoans

\* C4: a check-in or renewal that fails (no session, non-success status,
\* thrown error) ends without calling fetchCheckouts, and all it has
\* changed is the error: the list, the page count, the success message
\* and `loading` are untouched, and its id, which it had added to its own
\* pending set at the start, is taken out again.
C4_FailureChangesOnlyError ==
  [][ /\ \A p \in OpSlots : FailureStepOf(p) =>
            /\ ops' = RemoveAt(ops, p)
            /\ ops[p].refreshes = 0
            /\ error' # ""
            /\ checkinLoading' = IF ops[p].kind = "checkin"
                                   THEN checkinLoading \ {ops[p].id} ELSE checkinLoading
            /\ extendLoading' = IF ops[p].kind = "extend"
                                  THEN extendLoading \ {ops[p].id} ELSE extendLoading
            /\ UNCHANGED <<checkouts, totalPages, currentPage, loading,
                           successMessage, timers, srvLoans, srvDue>>
      /\ Len(ops') > Len(ops) =>
            LET o == ops'[Len(ops')]
            IN  /\ o.kind = "checkin" =>
                     /\ o.id \notin checkinLoading
                     /\ checkinLoading' = checkinLoading \cup {o.id}
                     /\ extendLoading' = extendLoading
                /\ o.kind = "extend" =>
                     /\ o.id \notin extendLoading
                     /\ extendLoading' = extendLoading \cup {o.id}
                     /\ checkinLoading' = checkinLoading
                /\ UNCHANGED <<checkouts, totalPages, currentPage, loading,
                               successMessage, timers, error>> ]_vars

C4_Witness ==
  /\ error \in {CheckinFailedMsg, RenewFailedMsg}
  /\ checkouts # <<>>
  /\ ops = <<>>
  /\ checkinLoading = {}
  /\ extendLoading = {}

\* C17: a fetchCheckouts that finds no session ends there: it sends no
\* request, sets the error to "No authenticated session found", resets
\* `loading`, and leaves the list and the page count as they were.
C17_FetchWithoutSession ==
  [][\A p \in OpSlots :
       (ops[p].pc = "r_session" /\ StepOf(p) /\ ~session) =>
          /\ ops' = RemoveAt(ops, p)
          /\ error' = NoSessionMsg
          /\ loading' = FALSE
          /\ UNCHANGED <<checkouts, totalPages, currentPage, srvLoans, srvDue>>]_vars

\* the refresh after a successful check-in found no session: the returned
\* book is still listed
C17_Witness ==
  /\ error = NoSessionMsg
  /\ ~session
  /\ ops = <<>>
  /\ ~loading
  /\ Len(checkouts) > Cardinality(srvLoans)

\* C18: when GET /books/my-checkouts is answered with a non-success status,
\* the error becomes the body's detail if the body has one (a non-empty
\* string) and "Failed to fetch checkouts" otherwise, and the list and the
\* page count are not replaced.
C18_HttpErrorOfFetch ==
  [][\A p \in OpSlots : \A r \in FailedResponses :
       (r.kind = "http" /\ FetchFailsWith(p, r)) =>
          /\ error' = IF r.detail \in {Null, Some("")}
                        THEN FetchCheckoutsFailedMsg ELSE Val(r.detail)
          /\ ops' = RemoveAt(ops, p)
          /\ UNCHANGED <<checkouts, totalPages>>]_vars

\* the refresh after a successful check-in got a non-success status
\* without detail: the returned book is still listed
C18_Witness ==
  /\ error = FetchCheckoutsFailedMsg
  /\ ops = <<>>
  /\ ~loading
  /\ Len(checkouts) > Cardinality(srvLoans)

\* C19: there is one error string and nothing else: a failing check-in or
\* renewal replaces it by its own message whatever it held, and the step of
\* a timer leaves it as it is.
C19_SingleCurrentError ==
  /\ [](error \in {"", NoSessionMsg, ServerDetail, ThrownMsg, CheckinFailedMsg,
                   RenewFailedMsg, FetchCheckoutsFailedMsg})
  /\ [][ /\ \A p \in OpSlots : FailureStepOf(p) =>
              error' \in { NoSessionMsg, ServerDetail, ThrownMsg,
                           IF ops[p].kind = "checkin" THEN CheckinFailedMsg
                                                      ELSE RenewFailedMsg }
         /\ timers' < timers => error' = error ]_vars

\* a check-in has failed and its message is shown, while a renewal whose
\* POST is unanswered is about to fail too
C19_Witness ==
  /\ error = CheckinFailedMsg
  /\ \E p \in OpSlots : ops[p].kind = "extend" /\ ops[p].pc = "net"
  /\ ~session

\* C20: whenever a check-in, a renewal or a fetch of the loans is started,
\* the error is cleared in the same step.
C20_AttemptClearsError ==
  [][ ( \/ Len(ops') > Len(ops)
        \/ \E p \in OpSlots : /\ Len(ops') = Len(ops)
                              /\ ops[p].pc = "net"
                              /\ ops'[p].pc = "r_session" )
      => error' = "" ]_vars

\* the step that starts an invocation of the given kind (the click)
ClickStepOf(kind) ==
  /\ Len(ops') = Len(ops) + 1
  /\ ops'[Len(ops')].kind = kind

\* C22: check-in and renewal keep two pending sets and neither guards the
\* other: no step of a check-in (its click or any resumption) changes
\* extendLoading, no step of a renewal changes checkinLoading, and a loan
\* whose renewal is pending still offers its check-in and the other way
\* round.
C22_IndependentPendingSets ==
  /\ [][ /\ ClickStepOf("checkin") => extendLoading' = extendLoading
         /\ ClickStepOf("extend") => checkinLoading' = checkinLoading
         /\ \A p \in OpSlots :
              /\ StepOf(p) /\ ops[p].kind = "checkin" =>
                    extendLoading' = extendLoading
              /\ StepOf(p) /\ ops[p].kind = "extend" =>
                    checkinLoading' = checkinLoading ]_vars
  /\ [](\A id \in Books : ~loading /\ Displayed(id) =>
          /\ id \in extendLoading /\ id \notin checkinLoading =>
                CheckinButtonEnabled(id)
          /\ id \in checkinLoading /\ id \notin extendLoading
                /\ ~Item(id).is_overdue => ExtendButtonEnabled(id))

\* the same loan is being checked in and renewed at once
C22_Witness ==
  \E id \in Books : id \in checkinLoading /\ id \in extendLoading

\* the invocations of one kind for one loan that have not returned
Running(kind, id) ==
  {p \in OpSlots : ops[p].kind = kind /\ ops[p].id = id}

\* the pending set of a kind
PendingSet(kind) ==
  IF kind = "checkin" THEN checkinLoading ELSE extendLoading

\* C33: an id is in the check-in (renewal) pending set exactly while a
\* check-in (renewal) of it has started and not finished, the refresh after
\* a success included: an invocation that is running, also one that awaits
\* its refresh, has its id in the set, and an id leaves the set only in the
\* step in which such an invocation returns, which after a success is the
\* step that ends the refresh.
C33_PendingWhileRunning ==
  /\ [](\A kind \in {"checkin", "extend"} : \A id \in Books :
          (id \in PendingSet(kind)) = (Running(kind, id) # {}))
  /\ [][ \A kind \in {"checkin", "extend"} : \A id \in Books :
           (id \in PendingSet(kind) /\ id \notin PendingSet(kind)') =>
              \E p \in Running(kind, id) :
                 /\ ops' = RemoveAt(ops, p)
                 /\ ops[p].posted = "ok" =>
                       /\ ops[p].pc \in {"r_session", "r_net"}
                       /\ ops[p].refreshes = 1
                       /\ loading' = FALSE ]_vars

\* a renewal has succeeded and awaits the answer to its refresh, a check-in
\* of another loan has been started: both ids are pending
C33_Witness ==
  /\ \E p \in OpSlots : /\ ops[p].kind = "extend" /\ ops[p].posted = "ok"
                         /\ ops[p].pc = "r_net"
                         /\ ops[p].id \in extendLoading
  /\ \E p \in OpSlots : /\ ops[p].kind = "checkin" /\ ops[p].pc = "session"
                         /\ ops[p].id \in checkinLoading
                         /\ ops[p].id \notin extendLoading

\* what the step that ends a failed refresh of invocation p leaves behind
RefreshFailedWith(p, msg) ==
  /\ ops[p].posted = "ok"
  /\ ops' = RemoveAt(ops, p)
  /\ ops[p].id \notin (IF ops[p].kind = "checkin" THEN checkinLoading'
                                                ELSE extendLoading')
  /\ checkouts' = checkouts
  /\ totalPages' = totalPages
  /\ successMessage' = successMessage
  /\ timers' = timers
  /\ error' = msg
  /\ error' \notin {CheckinFailedMsg, RenewFailedMsg}

\* C35: a check-in or renewal whose POST succeeded and whose refresh fails
\* is still a success: the success message is set (and its timer scheduled)
\* when the POST succeeds, and the step in which the refresh fails (no
\* session, a non-success status, a thrown error) removes the id from the
\* pending set, leaves the list, the page count and the message as they
\* were and sets the error to the failure of the refresh, not to a failure
\* of the check-in or renewal.
C35_FailedRefreshAfterSuccess ==
  [][ \A p \in OpSlots :
        /\ SuccessStepOf(p) =>
              /\ successMessage' = <<ops[p].kind, ops[p].id>>
              /\ checkouts' = checkouts
        /\ (Mutating(p) /\ FetchGetSession(p) /\ ~session) =>
              RefreshFailedWith(p, NoSessionMsg)
        /\ \A r \in FailedResponses :
              (Mutating(p) /\ FetchFailsWith(p, r)) =>
                 RefreshFailedWith(p,
                    IF r.kind = "threw" THEN ThrownMsg
                    ELSE IF r.detail = Some(ServerDetail) THEN ServerDetail
                    ELSE FetchCheckoutsFailedMsg) ]_vars

\* loan 1 has been checked in on the server and its message is shown; the
\* refresh failed with a status that carried no detail: the handler has
\* returned, nothing is pending and loan 1 is still listed
C35_Witness ==
  /\ ops = <<>>
  /\ successMessage = <<"checkin", 1>>
  /\ 1 \notin srvLoans
  /\ Displayed(1)
  /\ checkinLoading = {}
  /\ error = FetchCheckoutsFailedMsg

\* C29: one fetch of the loans classifies every book of the answer against
\* one instant, the `new Date()` taken when the answer has been parsed: no
\* two books of a page are classified against different instants.
C29_OneSnapshotPerFetch ==
  [][ \A p \in OpSlots : (FetchSucceeds(p) /\ uc_mounted) =>
        /\ Len(checkouts') = Len(MyCheckoutsResponse(ops[p].page).books)
        /\ \A i \in 1..Len(checkouts') :
              LET c == checkouts'[i]
                  d == srvDue[c.id]
              IN  /\ c.is_overdue <=> now > d
                  /\ IsCeilDays(IF c.is_overdue THEN -c.days_overdue
                                                ELSE c.days_until_due, d - now) ]_vars

\* two loans fetched a day after the view was opened: both are overdue by
\* then, the first by a day and a half
C29_Witness ==
  /\ now = MS_PER_DAY
  /\ Len(checkouts) = 2
  /\ checkouts[1].is_overdue /\ checkouts[1].days_overdue = 1
  /\ checkouts[2].is_overdue /\ checkouts[2].days_overdue = 0

(***************************************************************************)
(* DueDateClassifier: the inputs are drawn in Init, Classify applies the   *)
(* callback to them.                                                       *)
(***************************************************************************)
Instants == { q * (MS_PER_DAY \div 4) + e : q \in 0..MaxQuarters, e \in {0, 1} }
DueInputs == {Null} \cup { Some(t) : t \in Instants }

ClsInit ==
  /\ session = TRUE
  /\ NotifRest
  /\ LoanRest
  /\ LibRest
  /\ DocRest
  /\ book_due_date \in DueInputs
  /\ currentDate \in Instants
  /\ processed = Null

Classify ==
  /\ processed = Null
  /\ processed' = Some(processBook(book_due_date, currentDate))
  /\ UNCHANGED <<session, book_due_date, currentDate, exceptCls>>

\* the next book / the next fetch: fresh inputs
ClsNextInput ==
  /\ processed # Null
  /\ book_due_date' \in DueInputs
  /\ currentDate' \in Instants
  /\ processed' = Null
  /\ UNCHANGED <<session, exceptCls>>

ClsNext == Classify \/ ClsNextInput

SpecClassify == ClsInit /\ [][ClsNext]_vars

\* C5: for a non-null due date d, is_overdue is true exactly when now > d
\* (a loan due exactly at now is not overdue).
C5_OverdueIffNowAfterDue ==
  (processed # Null /\ book_due_date # Null) =>
     (Val(processed).is_overdue <=> currentDate > Val(book_due_date))

C5_Witness ==
  /\ processed # Null /\ book_due_date # Null
  /\ currentDate = Val(book_due_date)
  /\ ~Val(processed).is_overdue

\* C6 (as claimed): an overdue classification has days_until_due = 0 and
\* days_overdue = ceil((now - d) / 1 day), also for fractional differences.
C6_DaysOverdueIsCeilOfLateness ==
  (processed # Null /\ book_due_date # Null /\ currentDate > Val(book_due_date)) =>
     /\ Val(processed).days_until_due = 0
     /\ IsCeilDays(Val(processed).days_overdue, currentDate - Val(book_due_date))

\* C7: with delta_days = ceil((due_date - now) / 1 day): overdue loans have
\* days_overdue = |delta_days| and days_until_due = 0, the others have
\* days_until_due = delta_days and days_overdue = 0; a fraction of a day
\* rounds up, and due_date = now + 2 days gives days_until_due = 2.
C7_DeltaDays ==
  (processed # Null /\ book_due_date # Null) =>
     LET d == Val(book_due_date)
         r == Val(processed)
     IN  /\ currentDate > d =>
              /\ r.days_until_due = 0
              /\ r.days_overdue >= 0
              /\ IsCeilDays(-r.days_overdue, d - currentDate)
         /\ ~(currentDate > d) =>
              /\ r.days_overdue = 0
              /\ IsCeilDays(r.days_until_due, d - currentDate)
         /\ (d > currentDate /\ d < currentDate + MS_PER_DAY) => r.days_until_due = 1
         /\ d = currentDate + 2 * MS_PER_DAY => r.days_until_due = 2

C7_Witness ==
  /\ processed # Null /\ book_due_date # Null
  /\ Val(book_due_date) = currentDate + 2 * MS_PER_DAY
  /\ Val(processed).days_until_due = 2
  /\ ~Val(processed).is_overdue

\* C8 (as claimed): a book whose due_date is null is never classified: it
\* never receives is_overdue / days_overdue / days_until_due values.
C8_NullDueDateNeverClassified ==
  processed # Null => book_due_date # Null

\* C27: in every classified loan days_overdue >= 0 and days_until_due >= 0,
\* and at most one of them is not zero: a loan that is not overdue has
\* days_overdue = 0, an overdue loan has days_until_due = 0.
C27_DerivedDaysAreNonNegative ==
  processed # Null =>
     LET r == Val(processed)
     IN  /\ r.days_overdue >= 0
         /\ r.days_until_due >= 0
         /\ r.days_overdue = 0 \/ r.days_until_due = 0
         /\ ~r.is_overdue => r.days_overdue = 0
         /\ r.is_overdue => r.days_until_due = 0

\* a loan that is more than a day late
C27_Witness ==
  /\ processed # Null /\ book_due_date # Null
  /\ Val(processed).is_overdue
  /\ Val(processed).days_overdue >= 2
  /\ Val(processed).days_until_due = 0

\* C28: a loan is due soon exactly when it is not overdue and
\* 0 <= days_until_due <= 3; no loan is both overdue and due soon, so in a
\* list classified at one instant the overdue count plus the due-soon
\* count is at most the number of loans.
C28_DueSoonThreshold ==
  processed # Null =>
     LET r == Val(processed)
     IN  /\ isDueSoon(r) <=>
               (~r.is_overdue /\ 0 <= r.days_until_due /\ r.days_until_due <= 3)
         /\ ~(r.is_overdue /\ isDueSoon(r))
         /\ \A d \in DueInputs :
               LET list == <<r, processBook(d, currentDate)>>
               IN  overdueCount(list) + dueSoonCount(list) <= Len(list)

\* a loan due in exactly three days is due soon
C28_Witness ==
  /\ processed # Null /\ book_due_date # Null
  /\ Val(book_due_date) = currentDate + 3 * MS_PER_DAY
  /\ Val(processed).days_until_due = 3
  /\ isDueSoon(Val(processed))

=============================================================================
